---- MODULE Spec2Model ----
(***************************************************************************)
(* Verification model of the neocrates credential cache and provider       *)
(* clients.                                                                *)
(*                                                                         *)
(*   Spec      CosService::get_aliyun_sts (src/src/aws/sts_service.rs)     *)
(*             run by several concurrent callers for one uid against one   *)
(*             Redis store, one provider and one wall clock (another uid   *)
(*             is another key: format!("{}{}", CACHE_ALIYUN_STS, uid)).    *)
(*   SpecResp  the response decoders of the provider clients: Aliyun STS   *)
(*             handle_response, Tencent STS get_temp_credentials and       *)
(*             SmsService::send_via_provider, applied to bounded inputs.   *)
(*   SpecSign  the request builders of the provider clients: url_encode,   *)
(*             the query-signing Aliyun STS and SMS clients and the        *)
(*             header-signing Tencent STS and SMS clients.                 *)
(***************************************************************************)
EXTENDS Integers, Sequences, FiniteSets, TLC

\* ------------------------------------------------------------------ bounds
NumCallers == 2
MaxCalls == 3
MaxTime == 150
TickStep == 30
MaxLifetime == 120
\* u64 is modelled with U64Bits bits (and i64 with one bit less): the
\* arithmetic is the same, the numbers stay inside TLC's integers.
U64Bits == 16

\* --------------------------------------------------------------- constants
\* `config.aliyun_expiration as u64 - 60`
SAFETY_MARGIN == 60

Callers == 1..NumCallers
U64Mod == 2 ^ U64Bits
I64Max == 2 ^ (U64Bits - 1) - 1
\* config.aliyun_expiration values: below, at and just above the margin, and
\* a comfortable one.
Lifetimes == {SAFETY_MARGIN - 1, SAFETY_MARGIN, SAFETY_MARGIN + 1, MaxLifetime}

VARIABLES
    now,            \* wall clock, seconds
    cfgExp,         \* config.aliyun_expiration (u32), fixed at construction
    overflowChecks, \* build profile: TRUE = overflow checks on (debug)
    store,          \* Redis: the entry under the uid's key
    serial,         \* provider: number of credentials issued so far
    calls,          \* number of get_aliyun_sts calls started so far
    pc,             \* per caller: position inside get_aliyun_sts
    sts,            \* per caller: the local `sts` built from the response
    last,           \* the latest outcome of a call, and how it came about
    rin,            \* SpecResp: the input under decoding
    rout,           \* SpecResp: the decoder's result
    clock,          \* SpecSign: wall clock of the signing clients, microseconds
    req,            \* SpecSign: the request (or encoding) built last
    nonceLog,       \* SpecSign: the nonces of the requests built so far
    cosIn,          \* SpecCos: the StsConfig and the provider's answer
    cosOut,         \* SpecCos: what get_cos_sts returned
    lockNow,        \* SpecLock: clock of Redis and of the callers, milliseconds
    lockEntry,      \* SpecLock: Redis: the value under the lock key and its expiry
    lockHeld,       \* SpecLock: per caller: the token acquire_lock gave it, and its retry loop
    lockLast,       \* SpecLock: the latest lock operation and its result
    retryStrategy,  \* SpecRetry: the RetryIntervals strategy: its intervals and `current`
    retryLog,       \* SpecRetry: the outcomes of the operation's invocations so far
    retryPc,        \* SpecRetry: position inside retry_async
    retrySleep,     \* SpecRetry: the delay being slept
    retryResult,    \* SpecRetry: what retry_async returned
    snowClock,      \* SpecSnow: the wall clock, milliseconds since EPOCH
    snowGen,        \* SpecSnow: ID_GENERATOR: sequence and last_timestamp
    snowIds,        \* SpecSnow: the IDs returned so far, in lock order
    snowSeen,       \* SpecSnow: which threads called, and whether a call met a clock set back or an overflow of the sequence
    capCfg,         \* SpecCaptcha: SmsConfig: debug and the provider
    capRedis,       \* SpecCaptcha: Redis: the code under the mobile's key
    capSerial,      \* SpecCaptcha: number of codes stored so far
    capOps,         \* SpecCaptcha: number of calls started so far
    cap,            \* SpecCaptcha: per task: position and locals in send_captcha or valid_auth_captcha
    capWins,        \* SpecCaptcha: per stored code: successful validations with delete = true
    dateIn,         \* SpecDate: the instant of the call and the host's time zone
    dateOut,        \* SpecDate: the timestamp and the dates the client put into its request
    authUid,        \* SpecAuth: Redis: the AuthTokenResult under the uid key
    authTokens,     \* SpecAuth: Redis: the access tokens that have a key
    authRefresh,    \* SpecAuth: Redis: the refresh tokens that have a key
    authSerial,     \* SpecAuth: number of token pairs generated so far
    authOps,        \* SpecAuth: number of calls started so far
    auth,           \* SpecAuth: per task: position and locals in generate_auth_token or refresh_auth
    authExchanged,  \* SpecAuth: per pair: successful refresh_auth calls that presented it
    tsNow,          \* SpecStore: Instant::now(), seconds
    tsMap,          \* SpecStore: the DashMap's entry under the key
    tsWritten,      \* SpecStore: the entry of the latest completed set_raw, until delete
    tsSets,         \* SpecStore: number of set_raw calls so far
    tsOps,          \* SpecStore: number of calls started so far
    tsTask,         \* SpecStore: per task: position inside get_raw and its result
    tsLast          \* SpecStore: the latest completed call and what it found


\* ------------------------------------------------------------ AwsStsVo
NoVo == [access_key_id |-> 0, access_key_secret |-> 0, security_token |-> 0,
         expiration |-> 0, endpoint |-> "", region |-> "", bucket |-> ""]

\* The provider's Credentials for the n-th issue, expiring at `exp`.
Credentials(n, exp) ==
    [access_key_id |-> n, access_key_secret |-> n + 100,
     security_token |-> n + 200, expiration |-> exp]

\* AwsStsVo { .. } built from the response and the config.
BuildVo(cr) ==
    [access_key_id |-> cr.access_key_id,
     access_key_secret |-> cr.access_key_secret,
     security_token |-> cr.security_token,
     expiration |-> cr.expiration,
     endpoint |-> "oss-endpoint", region |-> "cn-hangzhou", bucket |-> "bkt"]

\* #[serde(rename_all = "camelCase")] field names, in declaration order.
VoKeys == <<"accessKeyId", "accessKeySecret", "securityToken", "expiration",
            "endpoint", "region", "bucket">>

\* serde_json::to_string(&sts): an object of key/value pairs.
Serialize(vo) ==
    << <<"accessKeyId", vo.access_key_id>>,
       <<"accessKeySecret", vo.access_key_secret>>,
       <<"securityToken", vo.security_token>>,
       <<"expiration", vo.expiration>>,
       <<"endpoint", vo.endpoint>>,
       <<"region", vo.region>>,
       <<"bucket", vo.bucket>> >>

KeyCount(p, k) == Cardinality({i \in DOMAIN p : p[i][1] = k})
Field(p, k) == p[CHOOSE i \in DOMAIN p : p[i][1] = k][2]

\* A deserializer that reads the secret from the token's key.
Deserialize_swapped(p) ==
    IF \A j \in DOMAIN VoKeys : KeyCount(p, VoKeys[j]) = 1
    THEN [ok |-> TRUE,
          vo |-> [access_key_id |-> Field(p, "accessKeyId"),
                  access_key_secret |-> Field(p, "securityToken"),
                  security_token |-> Field(p, "securityToken"),
                  expiration |-> Field(p, "expiration"),
                  endpoint |-> Field(p, "endpoint"),
                  region |-> Field(p, "region"),
                  bucket |-> Field(p, "bucket")]]
    ELSE [ok |-> FALSE, vo |-> NoVo]

\* serde_json::from_str::<AwsStsVo>(&t): every field must be present once.
Deserialize(p) ==
    IF \A j \in DOMAIN VoKeys : KeyCount(p, VoKeys[j]) = 1
    THEN [ok |-> TRUE,
          vo |-> [access_key_id |-> Field(p, "accessKeyId"),
                  access_key_secret |-> Field(p, "accessKeySecret"),
                  security_token |-> Field(p, "securityToken"),
                  expiration |-> Field(p, "expiration"),
                  endpoint |-> Field(p, "endpoint"),
                  region |-> Field(p, "region"),
                  bucket |-> Field(p, "bucket")]]
    ELSE [ok |-> FALSE, vo |-> NoVo]

\* ------------------------------------------------------------ Redis store
\* origin: "miss" for an entry get_aliyun_sts wrote, "foreign" for one that
\* another client of the store wrote, "" for no entry. returned: what the
\* call that wrote the entry returned to its caller (history, not in Redis).
NoEntry ==
    [payload |-> <<>>, ttl |-> 0, expireAt |-> 0, origin |-> "",
     returned |-> NoVo]

\* A payload of another shape under the same key.
ForeignPayload == << <<"accessKeyId", 0>> >>

\* a - b on u64, wrapping (overflow checks off).
WrappingSub(a, b) == (a - b + U64Mod) % U64Mod

\* The TTL stored without the margin.
EffectiveTtl_nomargin(exp) == exp

\* `config.aliyun_expiration as u64 - 60`, in a build that wraps.
EffectiveTtl(exp) == WrappingSub(exp, SAFETY_MARGIN)

\* The subtraction overflows.
TtlUnderflows(exp) == exp < SAFETY_MARGIN

\* SETEX key seconds value: Redis takes a positive signed 64-bit expire time
\* and answers an error otherwise, which `query_async(..).await?` returns.
SetexAccepts(seconds) == seconds > 0 /\ seconds <= I64Max

\* ------------------------------------------------------------ results
\* kind: "Ok" / "Err" / "panic" ("none" before any call ended); at: the time
\* of the return; fetched: assume_role invocations of the call; wrote: the
\* call wrote the store; hit: the call was answered from the store.
NoResult ==
    [kind |-> "none", err |-> "", vo |-> NoVo, at |-> 0, fetched |-> 0,
     wrote |-> FALSE, hit |-> FALSE]
OkResult(vo, f, w) ==
    [kind |-> "Ok", err |-> "", vo |-> vo, at |-> now, fetched |-> f,
     wrote |-> w, hit |-> f = 0]
ErrResult(e, f) ==
    [kind |-> "Err", err |-> e, vo |-> NoVo, at |-> now, fetched |-> f,
     wrote |-> FALSE, hit |-> FALSE]
Panicked(f) ==
    [kind |-> "panic", err |-> "", vo |-> NoVo, at |-> now, fetched |-> f,
     wrote |-> FALSE, hit |-> f = 0]









\* ------------------------------------------- variables by specification
signVars == <<clock, req, nonceLog>>
cosVars == <<cosIn, cosOut>>
lockVars == <<lockNow, lockEntry, lockHeld, lockLast>>
retryVars == <<retryStrategy, retryLog, retryPc, retrySleep, retryResult>>
snowVars == <<snowClock, snowGen, snowIds, snowSeen>>
captchaVars == <<capCfg, capRedis, capSerial, capOps, cap, capWins>>
dateVars == <<dateIn, dateOut>>
authVars == <<authUid, authTokens, authRefresh, authSerial, authOps, auth, authExchanged>>
tokenVars == <<tsNow, tsMap, tsWritten, tsSets, tsOps, tsTask, tsLast>>
extVars == <<cosVars, lockVars, retryVars, snowVars, captchaVars, dateVars, authVars, tokenVars>>
oldVars == <<now, cfgExp, overflowChecks, store, serial, calls, pc, sts, last, rin, rout, signVars>>

\* The value a specification's variables keep while another one runs.
OldIdle ==
    /\ now = 0
    /\ cfgExp = MaxLifetime
    /\ overflowChecks = FALSE
    /\ store = NoEntry
    /\ serial = 0
    /\ calls = 0
    /\ pc = [c \in Callers |-> "idle"]
    /\ sts = [c \in Callers |-> NoVo]
    /\ last = NoResult
    /\ rin = <<>>
    /\ rout = <<>>
    /\ clock = 0 /\ req = <<>> /\ nonceLog = <<>>
CosIdle == cosIn = <<>> /\ cosOut = <<>>
LockIdle == lockNow = 0 /\ lockEntry = <<>> /\ lockHeld = <<>> /\ lockLast = <<>>
RetryIdle == retryStrategy = <<>> /\ retryLog = <<>> /\ retryPc = "" /\ retrySleep = 0 /\ retryResult = <<>>
SnowIdle == snowClock = 0 /\ snowGen = <<>> /\ snowIds = <<>> /\ snowSeen = <<>>
CaptchaIdle == capCfg = <<>> /\ capRedis = <<>> /\ capSerial = 0 /\ capOps = 0 /\ cap = <<>> /\ capWins = <<>>
DateIdle == dateIn = <<>> /\ dateOut = <<>>
AuthIdle == authUid = <<>> /\ authTokens = {} /\ authRefresh = {} /\ authSerial = 0 /\ authOps = 0 /\ auth = <<>> /\ authExchanged = <<>>
TokenIdle == tsNow = 0 /\ tsMap = <<>> /\ tsWritten = <<>> /\ tsSets = 0 /\ tsOps = 0 /\ tsTask = <<>> /\ tsLast = <<>>
ExtIdle == CosIdle /\ LockIdle /\ RetryIdle /\ SnowIdle /\ CaptchaIdle /\ DateIdle /\ AuthIdle /\ TokenIdle

\* What the actions of one specification leave alone, and where the
\* rest of the state stands when it starts.
cosOthers == <<oldVars, lockVars, retryVars, snowVars, captchaVars, dateVars, authVars, tokenVars>>
CosOthersIdle == OldIdle /\ LockIdle /\ RetryIdle /\ SnowIdle /\ CaptchaIdle /\ DateIdle /\ AuthIdle /\ TokenIdle
lockOthers == <<oldVars, cosVars, retryVars, snowVars, captchaVars, dateVars, authVars, tokenVars>>
LockOthersIdle == OldIdle /\ CosIdle /\ RetryIdle /\ SnowIdle /\ CaptchaIdle /\ DateIdle /\ AuthIdle /\ TokenIdle
retryOthers == <<oldVars, cosVars, lockVars, snowVars, captchaVars, dateVars, authVars, tokenVars>>
RetryOthersIdle == OldIdle /\ CosIdle /\ LockIdle /\ SnowIdle /\ CaptchaIdle /\ DateIdle /\ AuthIdle /\ TokenIdle
snowOthers == <<oldVars, cosVars, lockVars, retryVars, captchaVars, dateVars, authVars, tokenVars>>
SnowOthersIdle == OldIdle /\ CosIdle /\ LockIdle /\ RetryIdle /\ CaptchaIdle /\ DateIdle /\ AuthIdle /\ TokenIdle
captchaOthers == <<oldVars, cosVars, lockVars, retryVars, snowVars, dateVars, authVars, tokenVars>>
CaptchaOthersIdle == OldIdle /\ CosIdle /\ LockIdle /\ RetryIdle /\ SnowIdle /\ DateIdle /\ AuthIdle /\ TokenIdle
dateOthers == <<oldVars, cosVars, lockVars, retryVars, snowVars, captchaVars, authVars, tokenVars>>
DateOthersIdle == OldIdle /\ CosIdle /\ LockIdle /\ RetryIdle /\ SnowIdle /\ CaptchaIdle /\ AuthIdle /\ TokenIdle
authOthers == <<oldVars, cosVars, lockVars, retryVars, snowVars, captchaVars, dateVars, tokenVars>>
AuthOthersIdle == OldIdle /\ CosIdle /\ LockIdle /\ RetryIdle /\ SnowIdle /\ CaptchaIdle /\ DateIdle /\ TokenIdle
tokenOthers == <<oldVars, cosVars, lockVars, retryVars, snowVars, captchaVars, dateVars, authVars>>
TokenOthersIdle == OldIdle /\ CosIdle /\ LockIdle /\ RetryIdle /\ SnowIdle /\ CaptchaIdle /\ DateIdle /\ AuthIdle
vars == <<now, cfgExp, overflowChecks, store, serial, calls, pc, sts, last,
          rin, rout, signVars, extVars>>

Init ==
    /\ now = 0
    /\ cfgExp \in Lifetimes
    /\ overflowChecks \in BOOLEAN
    /\ store = NoEntry
    /\ serial = 0
    /\ calls = 0
    /\ pc = [c \in Callers |-> "idle"]
    /\ sts = [c \in Callers |-> NoVo]
    /\ last = NoResult
    /\ rin = <<>>
    /\ rout = <<>>
    /\ clock = 0 /\ req = <<>> /\ nonceLog = <<>>
    /\ ExtIdle

\* A caller enters get_aliyun_sts(config, redis_pool, uid) and issues GET.
Call(c) ==
    /\ pc[c] = "idle"
    /\ calls < MaxCalls
    /\ calls' = calls + 1
    /\ pc' = [pc EXCEPT ![c] = "get"]
    /\ UNCHANGED <<now, cfgExp, overflowChecks, store, serial, sts, last,
                   rin, rout, signVars, extVars>>

\* redis_pool.get fails: Err(err) => return Err(AppError::RedisError(..)).
GetErr(c) ==
    /\ pc[c] = "get"
    /\ pc' = [pc EXCEPT ![c] = "idle"]
    /\ last' = ErrResult("RedisError: connection", 0)
    /\ UNCHANGED <<now, cfgExp, overflowChecks, store, serial, calls, sts,
                   rin, rout, signVars, extVars>>

\* Ok(Some(t)): serde_json::from_str(&t).expect(..), then Ok(sts).
GetHit(c) ==
    /\ pc[c] = "get"
    /\ store # NoEntry
    /\ LET d == Deserialize(store.payload)
       IN  last' = IF d.ok THEN OkResult(d.vo, 0, FALSE) ELSE Panicked(0)
    /\ pc' = [pc EXCEPT ![c] = "idle"]
    /\ UNCHANGED <<now, cfgExp, overflowChecks, store, serial, calls, sts,
                   rin, rout, signVars, extVars>>

\* Ok(None): build the client and send the AssumeRole request.
GetMiss(c) ==
    /\ pc[c] = "get"
    /\ store = NoEntry
    /\ pc' = [pc EXCEPT ![c] = "fetch"]
    /\ UNCHANGED <<now, cfgExp, overflowChecks, store, serial, calls, sts,
                   last, rin, rout, signVars, extVars>>

\* The provider issues a credential valid for DurationSeconds from now; the
\* response is on its way to the caller.
AssumeRoleOk(c) ==
    /\ pc[c] = "fetch"
    /\ serial' = serial + 1
    /\ sts' = [sts EXCEPT ![c] = BuildVo(Credentials(serial + 1, now + cfgExp))]
    /\ pc' = [pc EXCEPT ![c] = "setex"]
    /\ UNCHANGED <<now, cfgExp, overflowChecks, store, calls, last, rin, rout, signVars, extVars>>

\* A failed fetch that leaves a marker entry behind.
AssumeRoleErr_poison(c) ==
    /\ pc[c] = "fetch"
    /\ pc' = [pc EXCEPT ![c] = "idle"]
    /\ last' = ErrResult("ClientError", 1)
    /\ store' = [payload |-> ForeignPayload, ttl |-> SAFETY_MARGIN,
                 expireAt |-> now + SAFETY_MARGIN, origin |-> "miss",
                 returned |-> NoVo]
    /\ UNCHANGED <<now, cfgExp, overflowChecks, serial, calls, sts, rin, rout, signVars, extVars>>

\* assume_role returns Err(err) => return Err(AppError::ClientError(..)).
AssumeRoleErr(c) ==
    /\ pc[c] = "fetch"
    /\ pc' = [pc EXCEPT ![c] = "idle"]
    /\ last' = ErrResult("ClientError", 1)
    /\ UNCHANGED <<now, cfgExp, overflowChecks, store, serial, calls, sts,
                   rin, rout, signVars, extVars>>

\* The response is back: `config.aliyun_expiration as u64 - 60` overflows in
\* a build with overflow checks and the task panics.
SetexPanic(c) ==
    /\ pc[c] = "setex"
    /\ TtlUnderflows(cfgExp)
    /\ overflowChecks
    /\ pc' = [pc EXCEPT ![c] = "idle"]
    /\ sts' = [sts EXCEPT ![c] = NoVo]
    /\ last' = Panicked(1)
    /\ UNCHANGED <<now, cfgExp, overflowChecks, store, serial, calls, rin, rout, signVars, extVars>>

\* redis_pool.setex(key, json, ttl) finds no connection:
\* map_err(AppError::RedisError)?; nothing is written.
SetexConnErr(c) ==
    /\ pc[c] = "setex"
    /\ ~(TtlUnderflows(cfgExp) /\ overflowChecks)
    /\ pc' = [pc EXCEPT ![c] = "idle"]
    /\ sts' = [sts EXCEPT ![c] = NoVo]
    /\ last' = ErrResult("RedisError: connection", 1)
    /\ UNCHANGED <<now, cfgExp, overflowChecks, store, serial, calls, rin, rout, signVars, extVars>>

\* Redis refuses the expire time of the SETEX: the same map_err; nothing is
\* written.
SetexRefused(c) ==
    /\ pc[c] = "setex"
    /\ ~(TtlUnderflows(cfgExp) /\ overflowChecks)
    /\ ~SetexAccepts(EffectiveTtl(cfgExp))
    /\ pc' = [pc EXCEPT ![c] = "idle"]
    /\ sts' = [sts EXCEPT ![c] = NoVo]
    /\ last' = ErrResult("RedisError: invalid expire time", 1)
    /\ UNCHANGED <<now, cfgExp, overflowChecks, store, serial, calls, rin, rout, signVars, extVars>>

\* Redis executes SETEX now and the call returns Ok(sts).
SetexOk(c) ==
    /\ pc[c] = "setex"
    /\ ~(TtlUnderflows(cfgExp) /\ overflowChecks)
    /\ SetexAccepts(EffectiveTtl(cfgExp))
    /\ store' = [payload |-> Serialize(sts[c]),
                 ttl |-> EffectiveTtl(cfgExp),
                 expireAt |-> now + EffectiveTtl(cfgExp),
                 origin |-> "miss",
                 returned |-> sts[c]]
    /\ pc' = [pc EXCEPT ![c] = "idle"]
    /\ sts' = [sts EXCEPT ![c] = NoVo]
    /\ last' = OkResult(sts[c], 1, TRUE)
    /\ UNCHANGED <<now, cfgExp, overflowChecks, serial, calls, rin, rout, signVars, extVars>>

\* Time passes; Redis drops the entry once its TTL has elapsed.
Tick ==
    /\ now + TickStep <= MaxTime
    /\ now' = now + TickStep
    /\ store' = IF store # NoEntry /\ store.expireAt <= now + TickStep
                THEN NoEntry ELSE store
    /\ UNCHANGED <<cfgExp, overflowChecks, serial, calls, pc, sts, last,
                   rin, rout, signVars, extVars>>

\* Another client of the shared store (RedisPool::set / setex are public)
\* writes a value of another shape under the key.
ForeignWrite ==
    /\ store = NoEntry
    /\ calls < MaxCalls
    /\ store' = [payload |-> ForeignPayload, ttl |-> MaxLifetime,
                 expireAt |-> now + MaxLifetime, origin |-> "foreign",
                 returned |-> NoVo]
    /\ UNCHANGED <<now, cfgExp, overflowChecks, serial, calls, pc, sts, last,
                   rin, rout, signVars, extVars>>

Next ==
    \/ \E c \in Callers : Call(c)
    \/ \E c \in Callers : GetErr(c)
    \/ \E c \in Callers : GetHit(c)
    \/ \E c \in Callers : GetMiss(c)
    \/ \E c \in Callers : AssumeRoleOk(c)
    \/ \E c \in Callers : AssumeRoleErr(c)
    \/ \E c \in Callers : SetexPanic(c)
    \/ \E c \in Callers : SetexConnErr(c)
    \/ \E c \in Callers : SetexRefused(c)
    \/ \E c \in Callers : SetexOk(c)
    \/ Tick
    \/ ForeignWrite

Spec == Init /\ [][Next]_vars

\* ======================================================== claims, Spec
InFlight == {c \in Callers : pc[c] \in {"fetch", "setex"}}

\* C1: when several callers run get_aliyun_sts concurrently for the uid on
\* a cold cache, at most one of them is fetching from the provider (one
\* assume_role in flight); the others get the credential from the cache.
C1_SingleFlight == Cardinality(InFlight) <= 1

\* C2: a call whose assume_role fails writes nothing to the store and
\* returns an error, so it leaves the entry as it was (an absent entry stays
\* absent); and whatever get_aliyun_sts has put in the store is a credential
\* the provider issued, never a failure, so the next call fetches again.
C2_StepFetchErr ==
    \A c \in Callers :
        (pc[c] = "fetch" /\ pc'[c] = "idle") =>
            /\ store' = store
            /\ last'.kind = "Err"
            /\ last'.err = "ClientError"
            /\ ~last'.wrote
C2_EntryIsCredential ==
    store.origin = "miss" =>
        /\ Deserialize(store.payload).ok
        /\ Deserialize(store.payload).vo.access_key_id \in 1..serial
C2_NoPoisonOnFetchError == [][C2_StepFetchErr]_vars /\ []C2_EntryIsCredential
\* A fetch has failed, the store is empty and a caller is fetching again.
C2_Witness ==
    /\ last.kind = "Err" /\ last.err = "ClientError"
    /\ store = NoEntry
    /\ InFlight # {}

\* C3: a call that finds an entry of an earlier miss under the key returns
\* exactly the credential that miss stored and returned, calls the provider
\* not at all and leaves the store alone: every such call is answered from
\* the one fetch that filled the entry.
C3_StepHit ==
    \A c \in Callers :
        (/\ pc[c] = "get" /\ pc'[c] = "idle"
         /\ store.origin = "miss"
         /\ last'.err # "RedisError: connection") =>
            /\ last'.kind = "Ok"
            /\ last'.vo = store.returned
            /\ last'.vo.access_key_id \in 1..serial
            /\ last'.fetched = 0
            /\ serial' = serial
            /\ store' = store
C3_HitReturnsStored == [][C3_StepHit]_vars
\* A third call is answered from the store after a single fetch.
C3_Witness ==
    /\ last.kind = "Ok" /\ last.hit
    /\ calls >= 3 /\ serial = 1
    /\ store.origin = "miss" /\ last.vo = store.returned

\* C4: an entry written after a successful fetch has TTL = credential
\* lifetime - 60 s (the provider grants the lifetime asked for), and it
\* holds the credential that was returned to the caller.
C4_TtlIsLifetimeMinusMargin ==
    store.origin = "miss" =>
        /\ store.ttl = cfgExp - SAFETY_MARGIN
        /\ store.ttl > 0
        /\ store.payload = Serialize(store.returned)
        /\ (last.wrote => last.kind = "Ok")
\* The longest lifetime is stored with 60 s less, and returned.
C4_Witness ==
    /\ cfgExp = MaxLifetime
    /\ store.origin = "miss"
    /\ store.ttl = MaxLifetime - SAFETY_MARGIN
    /\ last.wrote /\ last.vo = store.returned

\* C5: with a configured lifetime <= 60 s (effective TTL zero or negative)
\* every call that reaches the provider and the store returns the fresh
\* credential, and no entry with such a TTL is stored or served.
C5_NonPositiveTtlIsMiss ==
    cfgExp <= SAFETY_MARGIN =>
        /\ (last.fetched = 1
             /\ last.err \notin {"ClientError", "RedisError: connection"})
                => last.kind = "Ok"
        /\ store.origin # "miss"

\* C6: a credential that get_aliyun_sts returns at time t, from the cache
\* or fresh, is not expired at t.
C6_ReturnedNotExpired ==
    last.kind = "Ok" => last.at < last.vo.expiration

\* C7: every failure inside get_aliyun_sts ends in Err(AppError) for the
\* caller; no path panics.
C7_NoPanic == last.kind # "panic"

\* ====================================================== response decoders
\* A response body: utf8 = the bytes are valid UTF-8, json = they are a JSON
\* object, fields = its members as key/value pairs, nested members under
\* dotted keys ("Response.Error.Code").
Body(u, j, f) == [utf8 |-> u, json |-> j, fields |-> f]
Has(b, k) == KeyCount(b.fields, k) >= 1
Once(b, k) == KeyCount(b.fields, k) = 1
Get(b, k) == Field(b.fields, k)

\* Option<T>
None == <<>>
Some(v) == <<v>>

\* String::from_utf8_lossy(&response_body): invalid bytes are replaced, the
\* string differs from the body then.
FromUtf8Lossy(b) == IF b.utf8 THEN b ELSE [b EXCEPT !.utf8 = TRUE]

\* A status check that lets redirects through.
IsSuccess_below400(status) == status >= 200 /\ status <= 399

\* status_code.is_success(): 200..=299
IsSuccess(status) == status >= 200 /\ status <= 299

\* What a decoder returns. ok: Ok(..) or Err(..); variant: the error's enum
\* variant; raw_message: the raw body the error carries, if it carries one;
\* value: the fields of the Ok value.
Out(ok, variant, status, code, message, request_id, host_id, raw, value) ==
    [ok |-> ok, variant |-> variant, status_code |-> status, code |-> code,
     message |-> message, request_id |-> request_id, host_id |-> host_id,
     raw_message |-> raw, value |-> value]
Pending == Out(FALSE, "pending", 0, "", "", "", None, None, <<>>)

\* ------------------------------------------------- Aliyun STS (awssts)
ErrorResponseKeys == {"Code", "Message", "RequestId"}
ResponseKeys ==
    {"Credentials.AccessKeyId", "Credentials.AccessKeySecret",
     "Credentials.SecurityToken", "Credentials.Expiration",
     "AssumedRoleUser.Arn", "AssumedRoleUser.AssumedRoleId", "RequestId"}

\* serde_json::from_slice::<ErrorResponse>: Code, Message, RequestId are
\* required, HostId is an Option.
ParsesErrorResponse(b) ==
    /\ b.json
    /\ \A k \in ErrorResponseKeys : Once(b, k)
    /\ KeyCount(b.fields, "HostId") <= 1

\* serde_json::from_slice::<Response>
ParsesResponse(b) == b.json /\ \A k \in ResponseKeys : Once(b, k)

\* StsClient::handle_response(response_body, status_code)
HandleResponse(b, status) ==
    IF ~IsSuccess(status)
    THEN IF ParsesErrorResponse(b)
         THEN Out(FALSE, "ServiceError", status, Get(b, "Code"),
                  Get(b, "Message"), Get(b, "RequestId"),
                  IF Has(b, "HostId") THEN Some(Get(b, "HostId")) ELSE None,
                  Some(FromUtf8Lossy(b)), <<>>)
         ELSE Out(FALSE, "ServiceError", status, "UnknownError",
                  "Failed to parse error response", "", None,
                  Some(FromUtf8Lossy(b)), <<>>)
    ELSE IF ParsesResponse(b)
         THEN Out(TRUE, "", 0, "", "", Get(b, "RequestId"), None, None,
                  <<Get(b, "Credentials.AccessKeyId"),
                    Get(b, "Credentials.AccessKeySecret"),
                    Get(b, "Credentials.SecurityToken"),
                    Get(b, "Credentials.Expiration")>>)
         ELSE Out(FALSE, "SerdeError", 0, "", "", "", None, None, <<>>)

\* ------------------------------------------------ Tencent STS (awssts)
TcCredKeys ==
    {"Response.Credentials.Token", "Response.Credentials.TmpSecretId",
     "Response.Credentials.TmpSecretKey", "Response.Credentials.ExpiredTime"}
TcErrorKeys == {"Response.Error.Code", "Response.Error.Message"}
TcHasCredentials(b) == \A k \in TcCredKeys : Once(b, k)
TcHasError(b) == \A k \in TcErrorKeys : Once(b, k)

\* serde_json::from_str::<StsResponse>: RequestId is required, Credentials
\* and Error are Options, each complete when present.
ParsesStsResponse(b) ==
    /\ b.json
    /\ Once(b, "Response.RequestId")
    /\ (TcHasCredentials(b) \/ \A k \in TcCredKeys : ~Has(b, k))
    /\ (TcHasError(b) \/ \A k \in TcErrorKeys : ~Has(b, k))

\* Utc.timestamp_opt(expired_time as i64, 0).single()
TimestampInRange(t) == t # "9223372036854775807"

\* A decoder that looks at the credentials before the error.
GetTempCredentials_credentialsFirst(b) ==
    IF ~ParsesStsResponse(b)
    THEN Out(FALSE, "SerdeError", 0, "", "", "", None, None, <<>>)
    ELSE IF TcHasCredentials(b)
    THEN Out(TRUE, "", 0, "", "", "", None, None,
             <<Get(b, "Response.Credentials.TmpSecretId"),
               Get(b, "Response.Credentials.TmpSecretKey"),
               Get(b, "Response.Credentials.Token"),
               Get(b, "Response.Credentials.ExpiredTime")>>)
    ELSE IF TcHasError(b)
    THEN Out(FALSE, "ApiError", 0, Get(b, "Response.Error.Code"),
             Get(b, "Response.Error.Message"), "", None, None, <<>>)
    ELSE Out(FALSE, "ApiError", 0, "NoCredentialsReturned",
             "No credentials found in the response", "", None, None, <<>>)

\* StsClient::get_temp_credentials, from the response text on.
GetTempCredentials(b) ==
    IF ~ParsesStsResponse(b)
    THEN Out(FALSE, "SerdeError", 0, "", "", "", None, None, <<>>)
    ELSE IF TcHasError(b)
    THEN Out(FALSE, "ApiError", 0, Get(b, "Response.Error.Code"),
             Get(b, "Response.Error.Message"), "", None, None, <<>>)
    ELSE IF ~TcHasCredentials(b)
    THEN Out(FALSE, "ApiError", 0, "NoCredentialsReturned",
             "No credentials found in the response", "", None, None, <<>>)
    ELSE IF ~TimestampInRange(Get(b, "Response.Credentials.ExpiredTime"))
    THEN Out(FALSE, "SignatureError", 0, "", "Invalid expiration timestamp",
             "", None, None, <<>>)
    ELSE Out(TRUE, "", 0, "", "", "", None, None,
             <<Get(b, "Response.Credentials.TmpSecretId"),
               Get(b, "Response.Credentials.TmpSecretKey"),
               Get(b, "Response.Credentials.Token"),
               Get(b, "Response.Credentials.ExpiredTime")>>)

\* ------------------------------------------------ SmsService (sms)
\* Aliyun::send_sms: reqwest::get(url).await?.json::<HashMap<String,String>>()
\* whatever the status; then send_via_provider matches on "Code".
SendViaAliyun(b) ==
    IF ~b.json
    THEN Out(FALSE, "ClientError", 0, "", "decode error", "", None, None, <<>>)
    ELSE IF Has(b, "Code") /\ Get(b, "Code") = "OK"
    THEN Out(TRUE, "", 0, "", "", "", None, None,
             <<"aliyun",
               IF Has(b, "RequestId") THEN Get(b, "RequestId") ELSE "",
               Get(b, "Code"),
               IF Has(b, "Message") THEN Get(b, "Message") ELSE "">>)
    ELSE Out(FALSE, "ClientError", 0, "",
             IF Has(b, "Message") THEN Get(b, "Message") ELSE "Unknown error",
             "", None, None, <<>>)

\* str::to_ascii_lowercase on the status codes of the model.
LowerAscii(s) ==
    CASE s \in {"Ok", "OK", "ok", "oK"} -> "ok"
      [] s = "FailedOperation.SignatureIncorrectOrUnapproved"
            -> "failedoperation.signatureincorrectorunapproved"
      [] s = "LimitExceeded.PhoneNumberDailyLimit"
            -> "limitexceeded.phonenumberdailylimit"
      [] OTHER -> s
EqIgnoreAsciiCase(a, b) == LowerAscii(a) = LowerAscii(b)

\* response.json::<ResponseJson<SendSmsResponse>>: RequestId and the
\* SendStatusSet array are required; "Response.SendStatusSet.len" is the
\* array's length, "Response.SendStatusSet.0.*" its first element.
ParsesSendSmsResponse(b) ==
    /\ b.json
    /\ Once(b, "Response.RequestId")
    /\ Once(b, "Response.SendStatusSet.len")
    /\ (Get(b, "Response.SendStatusSet.len") # "0" =>
            /\ Once(b, "Response.SendStatusSet.0.Code")
            /\ Once(b, "Response.SendStatusSet.0.Message"))

\* Tencent::send_sms from the response on, then send_via_provider.
SendViaTencent(b, status) ==
    IF ~IsSuccess(status)
    THEN Out(FALSE, "ClientError", status, "",
             "request error response status", "", None, None, <<>>)
    ELSE IF ~ParsesSendSmsResponse(b)
    THEN Out(FALSE, "ClientError", 0, "", "decode error", "", None, None, <<>>)
    ELSE IF Get(b, "Response.SendStatusSet.len") = "0"
    THEN Out(FALSE, "ClientError", 0, "", "empty response", "", None, None,
             <<>>)
    ELSE IF EqIgnoreAsciiCase(Get(b, "Response.SendStatusSet.0.Code"), "Ok")
    THEN Out(TRUE, "", 0, "", "", "", None, None,
             <<"tencent", Get(b, "Response.RequestId"),
               Get(b, "Response.SendStatusSet.0.Code"),
               Get(b, "Response.SendStatusSet.0.Message")>>)
    ELSE Out(FALSE, "ClientError", 0, "",
             Get(b, "Response.SendStatusSet.0.Message"), "", None, None, <<>>)

\* ------------------------------------------------ inputs of SpecResp
Statuses == {199, 200, 204, 299, 300, 403, 500}

AliyunErrFields ==
    << <<"Code", "InvalidAccessKeyId.NotFound">>,
       <<"Message", "Specified access key is not found.">>,
       <<"RequestId", "abc">> >>
AliyunOkFields ==
    << <<"Credentials.AccessKeyId", "AK1">>,
       <<"Credentials.AccessKeySecret", "SK1">>,
       <<"Credentials.SecurityToken", "TK1">>,
       <<"Credentials.Expiration", "2026-01-01T01:00:00Z">>,
       <<"AssumedRoleUser.Arn", "acs:ram::1:role/r/s">>,
       <<"AssumedRoleUser.AssumedRoleId", "3:s">> >>
AliyunStsBodies ==
    { Body(TRUE, TRUE, AliyunErrFields),
      Body(TRUE, TRUE, AliyunErrFields \o << <<"HostId", "sts.aliyuncs.com">> >>),
      Body(TRUE, TRUE, AliyunOkFields \o << <<"RequestId", "r-1">> >>),
      Body(TRUE, TRUE, AliyunErrFields \o AliyunOkFields),
      Body(TRUE, TRUE, SubSeq(AliyunErrFields, 1, 2)),
      Body(TRUE, TRUE, <<>>),
      Body(TRUE, FALSE, <<>>),
      Body(FALSE, FALSE, <<>>) }

TcReq == << <<"Response.RequestId", "req-1">> >>
TcCreds(t) ==
    << <<"Response.Credentials.Token", "tok">>,
       <<"Response.Credentials.TmpSecretId", "sid">>,
       <<"Response.Credentials.TmpSecretKey", "skey">>,
       <<"Response.Credentials.ExpiredTime", t>> >>
TcErr ==
    << <<"Response.Error.Code", "AuthFailure.SignatureFailure">>,
       <<"Response.Error.Message", "The provided credentials could not be validated.">> >>
TencentStsBodies ==
    { Body(TRUE, TRUE, TcReq \o TcCreds("1767229200")),
      Body(TRUE, TRUE, TcReq \o TcErr),
      Body(TRUE, TRUE, TcReq \o TcErr \o TcCreds("1767229200")),
      Body(TRUE, TRUE, TcReq),
      Body(TRUE, TRUE, TcReq \o TcCreds("9223372036854775807")),
      Body(TRUE, TRUE, TcErr),
      Body(TRUE, TRUE, TcReq \o SubSeq(TcCreds("1767229200"), 2, 4)),
      Body(TRUE, FALSE, <<>>) }

SmsAliyunBodies ==
    { Body(TRUE, TRUE, << <<"Code", "OK">>, <<"Message", "OK">>,
                          <<"RequestId", "r-2">>, <<"BizId", "b-1">> >>),
      Body(TRUE, TRUE, << <<"Code", "isv.BUSINESS_LIMIT_CONTROL">>,
                          <<"Message", "flow control">>,
                          <<"RequestId", "r-3">> >>),
      Body(TRUE, TRUE, << <<"Code", "isv.BUSINESS_LIMIT_CONTROL">>,
                          <<"Message", "flow control">>,
                          <<"RequestId", "r-3">>, <<"BizId", "b-2">> >>),
      Body(TRUE, TRUE, << <<"Code", "isv.MOBILE_NUMBER_ILLEGAL">>,
                          <<"RequestId", "r-4">> >>),
      Body(TRUE, TRUE, << <<"Code", "ok">>, <<"Message", "ok">> >>),
      Body(TRUE, TRUE, << <<"Message", "no code">> >>),
      Body(TRUE, FALSE, <<>>) }

TcSms(code, msg) ==
    << <<"Response.RequestId", "req-2">>,
       <<"Response.SendStatusSet.len", "1">>,
       <<"Response.SendStatusSet.0.Code", code>>,
       <<"Response.SendStatusSet.0.Message", msg>> >>
SmsTencentBodies ==
    { Body(TRUE, TRUE, TcSms("Ok", "send success")),
      Body(TRUE, TRUE, TcSms("LimitExceeded.PhoneNumberDailyLimit",
                             "daily limit reached")),
      Body(TRUE, TRUE, TcSms("FailedOperation.SignatureIncorrectOrUnapproved",
                             "signature not approved")),
      Body(TRUE, TRUE, TcSms("OK", "upper case code")),
      Body(TRUE, TRUE, << <<"Response.RequestId", "req-3">>,
                          <<"Response.SendStatusSet.len", "0">> >>),
      Body(TRUE, TRUE, TcReq \o TcErr),
      Body(TRUE, FALSE, <<>>) }

RespInputs ==
    [op : {"aliyun_sts"}, status : Statuses, body : AliyunStsBodies]
    \cup [op : {"tencent_sts"}, status : Statuses, body : TencentStsBodies]
    \cup [op : {"sms_aliyun"}, status : Statuses, body : SmsAliyunBodies]
    \cup [op : {"sms_tencent"}, status : Statuses, body : SmsTencentBodies]

InitResp ==
    /\ now = 0
    /\ cfgExp = MaxLifetime
    /\ overflowChecks = FALSE
    /\ store = NoEntry
    /\ serial = 0
    /\ calls = 0
    /\ pc = [c \in Callers |-> "idle"]
    /\ sts = [c \in Callers |-> NoVo]
    /\ last = NoResult
    /\ rin \in RespInputs
    /\ rout = Pending
    /\ clock = 0 /\ req = <<>> /\ nonceLog = <<>>
    /\ ExtIdle

cacheVars == <<now, cfgExp, overflowChecks, store, serial, calls, pc, sts, last>>

\* assume_role: the response of the provider goes through handle_response.
DecodeAliyunSts ==
    /\ rin.op = "aliyun_sts" /\ rout = Pending
    /\ rout' = HandleResponse(rin.body, rin.status)
    /\ UNCHANGED <<cacheVars, rin, signVars, extVars>>

\* get_temp_credentials: the response text is decoded.
DecodeTencentSts ==
    /\ rin.op = "tencent_sts" /\ rout = Pending
    /\ rout' = GetTempCredentials(rin.body)
    /\ UNCHANGED <<cacheVars, rin, signVars, extVars>>

\* send_via_provider, SmsProviderConfig::Aliyun
DecodeSmsAliyun ==
    /\ rin.op = "sms_aliyun" /\ rout = Pending
    /\ rout' = SendViaAliyun(rin.body)
    /\ UNCHANGED <<cacheVars, rin, signVars, extVars>>

\* send_via_provider, SmsProviderConfig::Tencent
DecodeSmsTencent ==
    /\ rin.op = "sms_tencent" /\ rout = Pending
    /\ rout' = SendViaTencent(rin.body, rin.status)
    /\ UNCHANGED <<cacheVars, rin, signVars, extVars>>

NextResp ==
    \/ DecodeAliyunSts
    \/ DecodeTencentSts
    \/ DecodeSmsAliyun
    \/ DecodeSmsTencent

SpecResp == InitResp /\ [][NextResp]_vars

\* ==================================================== claims, SpecResp
Decoded(op) == rin.op = op /\ rout # Pending
Http2xx == rin.status \in 200..299

\* The body is the provider's error envelope {Code, Message, RequestId,
\* HostId?}.
IsErrorEnvelope(b) ==
    /\ b.json
    /\ \A k \in {"Code", "Message", "RequestId"} : KeyCount(b.fields, k) = 1
    /\ KeyCount(b.fields, "HostId") <= 1

\* C8: for a non-2xx status handle_response never returns Ok, and when the
\* body is the provider's error envelope it returns ServiceError with the
\* HTTP status, the body's Code, Message, RequestId and HostId verbatim and
\* the raw body.
C8_ServiceErrorVerbatim ==
    (Decoded("aliyun_sts") /\ ~Http2xx) =>
        /\ ~rout.ok
        /\ IsErrorEnvelope(rin.body) =>
            /\ rout.variant = "ServiceError"
            /\ rout.status_code = rin.status
            /\ rout.code = Get(rin.body, "Code")
            /\ rout.message = Get(rin.body, "Message")
            /\ rout.request_id = Get(rin.body, "RequestId")
            /\ rout.host_id = IF Has(rin.body, "HostId")
                              THEN Some(Get(rin.body, "HostId")) ELSE None
            /\ rout.raw_message = Some(rin.body)
\* A 403 with an error envelope that names its host has been decoded.
C8_Witness ==
    /\ Decoded("aliyun_sts") /\ rin.status = 403
    /\ rout.variant = "ServiceError"
    /\ rout.code = "InvalidAccessKeyId.NotFound"
    /\ rout.host_id = Some("sts.aliyuncs.com")

\* The envelope of a 2xx response marks a failure, by the letter of the
\* provider's convention.
MarksFailure ==
    /\ Http2xx
    /\ \/ /\ rin.op = "tencent_sts"
          /\ ParsesStsResponse(rin.body) /\ TcHasError(rin.body)
       \/ /\ rin.op = "sms_aliyun"
          /\ rin.body.json /\ Has(rin.body, "Code")
          /\ Get(rin.body, "Code") # "OK"
       \/ /\ rin.op = "sms_tencent"
          /\ ParsesSendSmsResponse(rin.body)
          /\ Get(rin.body, "Response.SendStatusSet.len") # "0"
          /\ Get(rin.body, "Response.SendStatusSet.0.Code") # "Ok"

\* The error carries what the provider said.
CarriesProviderCodeOrMessage ==
    CASE rin.op = "tencent_sts" ->
            /\ rout.code = Get(rin.body, "Response.Error.Code")
            /\ rout.message = Get(rin.body, "Response.Error.Message")
      [] rin.op = "sms_aliyun" ->
            \/ rout.code = Get(rin.body, "Code")
            \/ Has(rin.body, "Message") /\ rout.message = Get(rin.body, "Message")
      [] rin.op = "sms_tencent" ->
            \/ rout.code = Get(rin.body, "Response.SendStatusSet.0.Code")
            \/ rout.message = Get(rin.body, "Response.SendStatusSet.0.Message")
      [] OTHER -> TRUE

MarksFailureIgnoringCase ==
    /\ MarksFailure
    /\ rin.op = "sms_tencent" =>
          LowerAscii(Get(rin.body, "Response.SendStatusSet.0.Code")) # "ok"

Unparseable ==
    \/ /\ rin.op = "aliyun_sts"
       /\ ~ParsesResponse(rin.body) /\ ~IsErrorEnvelope(rin.body)
    \/ /\ rin.op = "tencent_sts"
       /\ ~ParsesStsResponse(rin.body)

\* C10: when the body parses into neither shape, the error of the client
\* (Aliyun STS handle_response, Tencent STS get_temp_credentials) contains
\* the full raw body as a string, for every HTTP status, 2xx included.
C10_UnparseableKeepsRawBody ==
    (rout # Pending /\ Unparseable) =>
        ~rout.ok /\ rout.raw_message = Some(FromUtf8Lossy(rin.body))

\* ====================================================================
\* SpecSign: the request builders.  A string is the sequence of its bytes.
\* ====================================================================

\* ------------------------------------------------------------------ bounds
\* Longest string handed to url_encode on its own.
MaxStrLen == 3

\* The printable ASCII characters, in code order starting at 32 (the grave
\* accent, code 96, is written by name).
AsciiTable ==
    <<" ", "!", "\"", "#", "$", "%", "&", "'", "(", ")", "*", "+", ",", "-",
      ".", "/", "0", "1", "2", "3", "4", "5", "6", "7", "8", "9", ":", ";",
      "<", "=", ">", "?", "@", "A", "B", "C", "D", "E", "F", "G", "H", "I",
      "J", "K", "L", "M", "N", "O", "P", "Q", "R", "S", "T", "U", "V", "W",
      "X", "Y", "Z", "[", "\\", "]", "^", "_", "GRAVE", "a", "b", "c", "d", "e",
      "f", "g", "h", "i", "j", "k", "l", "m", "n", "o", "p", "q", "r", "s",
      "t", "u", "v", "w", "x", "y", "z", "{", "|", "}", "~">>
AsciiCode ==
    [ch \in {AsciiTable[i] : i \in DOMAIN AsciiTable} |->
        31 + (CHOOSE i \in DOMAIN AsciiTable : AsciiTable[i] = ch)]
\* b'c'
Ord(ch) == AsciiCode[ch]
\* The bytes of a string literal, written character by character.
B(chars) == [i \in DOMAIN chars |-> Ord(chars[i])]

RECURSIVE Concat(_)
\* The concatenation of a sequence of strings, in order (by halves).
Concat(ss) ==
    IF ss = <<>> THEN <<>>
    ELSE IF Len(ss) = 1 THEN ss[1]
    ELSE LET h == Len(ss) \div 2
         IN  Concat(SubSeq(ss, 1, h)) \o Concat(SubSeq(ss, h + 1, Len(ss)))

\* Vec<String>::join(sep)
Join(ss, sep) ==
    IF ss = <<>> THEN <<>>
    ELSE Concat([i \in 1..(2 * Len(ss) - 1) |->
                    IF i % 2 = 1 THEN ss[(i + 1) \div 2] ELSE sep])

\* b'A'..=b'Z' | b'a'..=b'z' | b'0'..=b'9' | b'-' | b'_' | b'.' | b'~'
UnreservedBytes ==
    (Ord("A")..Ord("Z")) \cup (Ord("a")..Ord("z")) \cup (Ord("0")..Ord("9"))
        \cup {Ord("-"), Ord("_"), Ord("."), Ord("~")}
IsUnreserved(b) == b \in UnreservedBytes

HexUpper == B(<<"0", "1", "2", "3", "4", "5", "6", "7", "8", "9",
                "A", "B", "C", "D", "E", "F">>)
\* format!("%{:02X}", b)
PercentHex(b) == <<37, HexUpper[(b \div 16) + 1], HexUpper[(b % 16) + 1]>>

\* An encoder in the form-urlencoded style: a space becomes '+'.
EncodeByte_plus(b) ==
    IF IsUnreserved(b) THEN <<b>>
    ELSE IF b = Ord(" ") THEN <<Ord("+")>>
    ELSE PercentHex(b)

\* An encoder that passes '%' through, as if the input were encoded already.
EncodeByte_keepPercent(b) ==
    IF IsUnreserved(b) \/ b = Ord("%") THEN <<b>> ELSE PercentHex(b)

\* One arm of the match in url_encode.
EncodeByte(b) == IF IsUnreserved(b) THEN <<b>> ELSE PercentHex(b)

\* fn url_encode(s: &str) -> String  (awssts/src/aliyun.rs): the arm's
\* output for each byte of s, in order.
url_encode(s) == Concat([i \in DOMAIN s |-> EncodeByte(s[i])])

\* One arm of the match in the Tencent client's url_encode.
TencentEncodeByte(b) == IF IsUnreserved(b) THEN <<b>> ELSE PercentHex(b)

\* fn url_encode(s: &str) -> String  (awssts/src/tencent.rs)
tencent_url_encode(s) == Concat([i \in DOMAIN s |-> TencentEncodeByte(s[i])])

\* ---------------------------------------------------------------- inputs
\* Bytes on both sides of every range of the match, the characters a query
\* string gives a meaning to, and a byte of a multi-byte UTF-8 character.
EncBytes ==
    {Ord("a"), Ord("b"), Ord("Z"), Ord("0"), Ord("-"), Ord("_"), Ord("."),
     Ord("~"), Ord(" "), Ord("+"), Ord("%"), Ord("&"), Ord("="), Ord("/"),
     Ord("@"), Ord("{"), 228}
EncInputs == UNION {[1..n -> EncBytes] : n \in 0..MaxStrLen}

NoReq == [kind |-> "none"]

InitSign ==
    /\ now = 0
    /\ cfgExp = MaxLifetime
    /\ overflowChecks = FALSE
    /\ store = NoEntry
    /\ serial = 0
    /\ calls = 0
    /\ pc = [c \in Callers |-> "idle"]
    /\ sts = [c \in Callers |-> NoVo]
    /\ last = NoResult
    /\ rin = <<>>
    /\ rout = <<>>
    /\ clock = 0
    /\ req = NoReq
    /\ nonceLog = <<>>
    /\ ExtIdle

respVars == <<rin, rout>>

\* url_encode applied to a string, and to its own output (as the string to
\* sign does with the canonical query string).
Encode ==
    \E s \in EncInputs :
        /\ req = NoReq
        /\ req' = [kind |-> "encode", in |-> s,
                   out |-> url_encode(s),
                   twice |-> url_encode(url_encode(s)),
                   tc |-> tencent_url_encode(s)]
        /\ UNCHANGED <<cacheVars, respVars, extVars, clock, nonceLog>>



\* ------------------------------------------------- claims under SpecSign
HexValues == [c \in {HexUpper[i] : i \in DOMAIN HexUpper} |->
                 (CHOOSE i \in DOMAIN HexUpper : HexUpper[i] = c) - 1]
IsHexUpper(c) == c \in DOMAIN HexValues
IsEscapeAt(s, i) ==
    /\ i >= 1 /\ i + 2 <= Len(s)
    /\ s[i] = 37
    /\ IsHexUpper(s[i + 1]) /\ IsHexUpper(s[i + 2])

\* The reader's side: each %XX is one byte, every other byte is itself (two
\* escapes never overlap: the bytes after a '%' of an escape are hex digits).
PercentDecode(s) ==
    Concat([i \in DOMAIN s |->
              IF IsEscapeAt(s, i)
              THEN <<16 * HexValues[s[i + 1]] + HexValues[s[i + 2]]>>
              ELSE IF IsEscapeAt(s, i - 1) \/ IsEscapeAt(s, i - 2) THEN <<>>
              ELSE <<s[i]>>])

\* Every byte is unreserved (the hex digits are) or the '%' of an escape.
OnlyUnreservedAndEscapes(s) ==
    \A i \in DOMAIN s : IsUnreserved(s[i]) \/ IsEscapeAt(s, i)

Reserved(s) == {i \in DOMAIN s : ~IsUnreserved(s[i])}
EncodedAs(in, out) ==
    /\ OnlyUnreservedAndEscapes(out)
    /\ Len(out) = Len(in) + 2 * Cardinality(Reserved(in))
    /\ PercentDecode(out) = in
    /\ \A i \in DOMAIN out : out[i] # Ord("+")

\* C18: url_encode (both clients' copies) keeps every unreserved byte and
\* writes every other byte as %XX with two uppercase hex digits: the output
\* holds unreserved characters and escapes only, a space is %20 and never
\* '+', and reading the escapes back gives the input.
C18_UrlEncodeUnreserved ==
    req.kind = "encode" =>
        /\ EncodedAs(req.in, req.out)
        /\ EncodedAs(req.in, req.tc)
        /\ (req.in = B(<<" ">>) => req.out = B(<<"%", "2", "0">>))
\* A string with a space, a reserved and an unreserved character.
C18_Witness ==
    /\ req.kind = "encode"
    /\ req.in = B(<<"a", " ", "/">>)
    /\ req.out = B(<<"a", "%", "2", "0", "%", "2", "F">>)
    /\ req.tc = req.out

\* C19 as stated: url_encode applied to its own output returns it unchanged.
C19_Idempotent ==
    req.kind = "encode" => req.twice = req.out

\* C19 amended: encoding "a b" gives "a%20b"; url_encode of an encoded
\* string encodes each '%' again ("a%2520b"), so the second application
\* leaves the string unchanged exactly when the input had unreserved
\* characters only, and reading the escapes of the second output back once
\* gives the first output.
C19_ReencodeEscapesPercent ==
    req.kind = "encode" =>
        /\ (req.twice = req.out <=> Reserved(req.in) = {})
        /\ EncodedAs(req.out, req.twice)
        /\ Len(req.twice) = Len(req.out) + 2 * Cardinality(Reserved(req.in))
        /\ (req.in = B(<<"a", " ", "b">>) =>
              /\ req.out = B(<<"a", "%", "2", "0", "b">>)
              /\ req.twice = B(<<"a", "%", "2", "5", "2", "0", "b">>))
C19_Witness ==
    /\ req.kind = "encode"
    /\ req.in = B(<<"a", " ", "b">>)
    /\ req.twice = B(<<"a", "%", "2", "5", "2", "0", "b">>)


\* ------------------------------------------------------------------ bounds
\* Requests built in one behaviour, and the last clock reading (microseconds).
MaxRequests == 2
MaxClock == 2

\* ---------------------------------------------------- strings and sorting
\* str::cmp / String::cmp: byte-wise lexicographic order.
LexLess(a, b) ==
    \E i \in 1..Len(b) :
        /\ \A j \in 1..(i - 1) : j <= Len(a) /\ a[j] = b[j]
        /\ (i > Len(a) \/ a[i] < b[i])

RECURSIVE ToDecimal(_)
\* .to_string() of a non-negative integer
ToDecimal(n) ==
    IF n < 10 THEN <<Ord("0") + n>>
    ELSE ToDecimal(n \div 10) \o <<Ord("0") + (n % 10)>>

Base64Alphabet ==
    B(<<"A", "B", "C", "D", "E", "F", "G", "H", "I", "J", "K", "L", "M",
        "N", "O", "P", "Q", "R", "S", "T", "U", "V", "W", "X", "Y", "Z",
        "a", "b", "c", "d", "e", "f", "g", "h", "i", "j", "k", "l", "m",
        "n", "o", "p", "q", "r", "s", "t", "u", "v", "w", "x", "y", "z",
        "0", "1", "2", "3", "4", "5", "6", "7", "8", "9", "+", "/">>)
Sextet(n) == Base64Alphabet[(n % 64) + 1]

RECURSIVE Base64Standard(_)
\* base64::engine::general_purpose::STANDARD.encode(bytes)
Base64Standard(bs) ==
    IF bs = <<>> THEN <<>>
    ELSE IF Len(bs) = 1
    THEN <<Sextet(bs[1] \div 4), Sextet(bs[1] * 16), Ord("="), Ord("=")>>
    ELSE IF Len(bs) = 2
    THEN LET n == bs[1] * 256 + bs[2]
         IN  <<Sextet(n \div 1024), Sextet(n \div 16), Sextet(n * 4), Ord("=")>>
    ELSE LET n == bs[1] * 65536 + bs[2] * 256 + bs[3]
         IN  <<Sextet(n \div 262144), Sextet(n \div 4096), Sextet(n \div 64),
               Sextet(n)>> \o Base64Standard(SubSeq(bs, 4, Len(bs)))

\* HMAC-SHA1 is not computed: the digest of a request is any of these byte
\* strings (their length leaves the remainder 2 modulo 3, as the 20 bytes of
\* SHA-1 do), the first of sextets that need no escaping.
Sha1Digests == {<<0, 16, 131, 16, 81>>, <<251, 239, 190, 255, 255>>}

\* Utc::now().format("%Y-%m-%dT%H:%M:%SZ") / to_rfc3339_opts(Secs, true)
Timestamp(t) ==
    LET sec == (t \div 1000000) % 60
    IN  B(<<"1", "9", "7", "0", "-", "0", "1", "-", "0", "1", "T", "0", "0",
          ":", "0", "0", ":">>)
           \o <<Ord("0") + (sec \div 10), Ord("0") + (sec % 10), Ord("Z")>>

RECURSIVE SortByKey(_)
\* query_params.sort_by(|a, b| a.0.cmp(b.0)): a stable sort on the raw key.
SortByKey(ps) ==
    IF ps = <<>> THEN <<>>
    ELSE LET x == ps[Len(ps)]
             rest == SortByKey(SubSeq(ps, 1, Len(ps) - 1))
             keep == {i \in DOMAIN rest : ~LexLess(x[1], rest[i][1])}
             n == Cardinality(keep)
         IN  SubSeq(rest, 1, n) \o <<x>> \o SubSeq(rest, n + 1, Len(rest))

\* The map a sequence of distinct-key pairs stands for.
AsMap(ps) ==
    [k \in {ps[i][1] : i \in DOMAIN ps} |->
        ps[CHOOSE i \in DOMAIN ps : ps[i][1] = k][2]]


\* ------------------------------------------- Variant A: Aliyun STS client
STS_SIGN_VERSION == B(<<"1", ".", "0">>)
STS_API_VERSION == B(<<"2", "0", "1", "5", "-", "0", "4", "-", "0", "1">>)
STS_HOST ==
    B(<<"h", "t", "t", "p", "s", ":", "/", "/", "s", "t", "s", ".", "a",
          "l", "i", "y", "u", "n", "c", "s", ".", "c", "o", "m", "/">>)
RESP_BODY_FORMAT == B(<<"J", "S", "O", "N">>)
PERCENT_ENCODE == B(<<"%", "2", "F">>)
HTTP_GET == B(<<"G", "E", "T">>)

\* Uuid::new_v4().to_string(): 122 random bits, taken never to repeat; the
\* n-th one is written "uuid-n".
UuidV4(n) == B(<<"u", "u", "i", "d", "-">>) \o ToDecimal(n)

\* sign_string_hmac_sha1: STANDARD.encode of the HMAC-SHA1 digest.
sign_string_hmac_sha1(digest) == Base64Standard(digest)

\* query_params after the pushes of generate_signed_url.
StsQueryParams(self, timestamp, nonce, expired_time_str) ==
    << <<B(<<"S", "i", "g", "n", "a", "t", "u", "r", "e", "V", "e", "r", "s",
          "i", "o", "n">>), STS_SIGN_VERSION>>,
       <<B(<<"F", "o", "r", "m", "a", "t">>), RESP_BODY_FORMAT>>,
       <<B(<<"T", "i", "m", "e", "s", "t", "a", "m", "p">>), timestamp>>,
       <<B(<<"R", "o", "l", "e", "A", "r", "n">>), self.role_arn>>,
       <<B(<<"R", "o", "l", "e", "S", "e", "s", "s", "i", "o", "n", "N", "a",
          "m", "e">>),
         self.session_name>>,
       <<B(<<"A", "c", "c", "e", "s", "s", "K", "e", "y", "I", "d">>), self.access_key_id>>,
       <<B(<<"S", "i", "g", "n", "a", "t", "u", "r", "e", "M", "e", "t", "h",
          "o", "d">>),
         B(<<"H", "M", "A", "C", "-", "S", "H", "A", "1">>)>>,
       <<B(<<"V", "e", "r", "s", "i", "o", "n">>), STS_API_VERSION>>,
       <<B(<<"A", "c", "t", "i", "o", "n">>), B(<<"A", "s", "s", "u", "m", "e", "R", "o", "l", "e">>)>>,
       <<B(<<"S", "i", "g", "n", "a", "t", "u", "r", "e", "N", "o", "n", "c",
          "e">>), nonce>>,
       <<B(<<"D", "u", "r", "a", "t", "i", "o", "n", "S", "e", "c", "o", "n",
          "d", "s">>),
         expired_time_str>> >>

\* A canonical query string whose pairs are joined without the encoding.
StsCanonical_raw(sorted) ==
    Join([i \in DOMAIN sorted |-> sorted[i][1] \o <<Ord("=")>> \o sorted[i][2]],
         <<Ord("&")>>)

\* .map(|(k, v)| format!("{}={}", url_encode(k), url_encode(v))).join("&")
StsCanonical(sorted) ==
    Join([i \in DOMAIN sorted |->
            url_encode(sorted[i][1]) \o <<Ord("=")>> \o url_encode(sorted[i][2])],
         <<Ord("&")>>)

\* format!("{}?{}&Signature={}", STS_HOST, canonical, url_encode(&signature))
StsUrl(canonical, signature) ==
    Concat(<<STS_HOST, <<Ord("?")>>, canonical,
             B(<<"&", "S", "i", "g", "n", "a", "t", "u", "r", "e", "=">>),
             url_encode(signature)>>)

\* StsClient::generate_signed_url, with the clock reading, the UUID and the
\* HMAC digest it obtains.
generate_signed_url(self, expired_time_seconds, t, uuid, digest) ==
    LET timestamp == Timestamp(t)
        nonce == UuidV4(uuid)
        expired_time_str == ToDecimal(expired_time_seconds)
        query_params ==
            SortByKey(StsQueryParams(self, timestamp, nonce, expired_time_str))
        canonical_query_string == StsCanonical(query_params)
        string_to_sign ==
            Concat(<<HTTP_GET, <<Ord("&")>>, PERCENT_ENCODE, <<Ord("&")>>,
                     url_encode(canonical_query_string)>>)
        signature == sign_string_hmac_sha1(digest)
    IN  [kind |-> "aliyun_sts",
         host |-> STS_HOST,
         params |-> AsMap(query_params),
         pairs |-> query_params,
         canonical |-> canonical_query_string,
         string_to_sign |-> string_to_sign,
         signature |-> signature,
         nonce |-> nonce,
         url |-> StsUrl(canonical_query_string, signature)]

\* Values a caller may configure: plain, and with the characters a query
\* string gives a meaning to.
ParamValues ==
    {B(<<"v", "1">>), B(<<"a", " ", "b", "+", "c", "&", "y", "=", "z", "%", "/">>)}
StsSelves ==
    {[access_key_id |-> B(<<"L", "T", "A", "I">>), role_arn |-> v,
      session_name |-> B(<<"s", " ", "1">>)] : v \in ParamValues}
\* expired_time_seconds
StsDurations == {3600}

Requests == Len(nonceLog)
UuidsIssued == Cardinality({i \in DOMAIN nonceLog : nonceLog[i].client = "aliyun_sts"})

\* assume_role builds the signed URL of one request.
BuildAliyunSts ==
    \E self \in StsSelves, d \in StsDurations, digest \in Sha1Digests :
        /\ req.kind # "encode" /\ req.kind # "canonicalize"
        /\ Requests < MaxRequests
        /\ req' = generate_signed_url(self, d, clock, UuidsIssued + 1, digest)
        /\ nonceLog' = Append(nonceLog, [client |-> "aliyun_sts", nonce |-> req'.nonce])
        /\ UNCHANGED <<cacheVars, respVars, extVars, clock>>

\* Time passes: one microsecond.
ClockTick ==
    /\ req.kind # "encode" /\ req.kind # "canonicalize"
    /\ clock < MaxClock
    /\ clock' = clock + 1
    /\ UNCHANGED <<cacheVars, respVars, extVars, req, nonceLog>>


\* ------------------------------------------- Variant A: Aliyun SMS client
SMS_VERSION == B(<<"2", "0", "1", "7", "-", "0", "5", "-", "2", "5">>)
SIGNATURE_VERSION == B(<<"1", ".", "0">>)
SIGNATURE_METHOD == B(<<"H", "M", "A", "C", "-", "S", "H", "A", "1">>)
FORMAT == B(<<"j", "s", "o", "n">>)
SMS_HOST ==
    B(<<"h", "t", "t", "p", "s", ":", "/", "/", "d", "y", "s", "m", "s",
          "a", "p", "i", ".", "a", "l", "i", "y", "u", "n", "c", "s", ".", "c",
          "o", "m", "/">>)

\* One byte of urlencoding::encode: everything but A-Z a-z 0-9 - _ . ~ is
\* written %XX (uppercase).
UrlencodingByte(b) == IF IsUnreserved(b) THEN <<b>> ELSE PercentHex(b)

\* urlencoding::encode(s)
urlencoding_encode(s) == Concat([i \in DOMAIN s |-> UrlencodingByte(s[i])])

\* format!("{}={}", k, urlencoding::encode(v))
RenderParam(p) == p[1] \o <<Ord("=")>> \o urlencoding_encode(p[2])

RECURSIVE SortRendered(_)
\* vec_arams.sort(): the rendered "k=v" strings (field s) in ascending
\* String order, each with the pair (field p) it was rendered from.
SortRendered(rs) ==
    IF rs = {} THEN <<>>
    ELSE LET m == CHOOSE r \in rs : \A q \in rs \ {r} : LexLess(r.s, q.s)
         IN  <<m>> \o SortRendered(rs \ {m})

\* all_params: the common parameters, then every caller parameter inserted
\* over them.
AllParams(self, params, signature_nonce, timestamp) ==
    LET common ==
            (B(<<"A", "c", "c", "e", "s", "s", "K", "e", "y", "I", "d">>) :> self.access_key_id)
         @@ (B(<<"F", "o", "r", "m", "a", "t">>) :> FORMAT)
         @@ (B(<<"S", "i", "g", "n", "a", "t", "u", "r", "e", "M", "e", "t", "h",
          "o", "d">>) :> SIGNATURE_METHOD)
         @@ (B(<<"S", "i", "g", "n", "a", "t", "u", "r", "e", "N", "o", "n", "c",
          "e">>) :> signature_nonce)
         @@ (B(<<"S", "i", "g", "n", "a", "t", "u", "r", "e", "V", "e", "r", "s",
          "i", "o", "n">>) :> SIGNATURE_VERSION)
         @@ (B(<<"T", "i", "m", "e", "s", "t", "a", "m", "p">>) :> timestamp)
    IN  params @@ common

\* Aliyun::canonicalize_query_string, with the clock reading it obtains.
canonicalize_query_string(self, params, t) ==
    LET signature_nonce == ToDecimal(t)
        timestamp == Timestamp(t)
        all_params == AllParams(self, params, signature_nonce, timestamp)
        vec_arams ==
            SortRendered({[s |-> RenderParam(<<k, all_params[k]>>),
                           p |-> <<k, all_params[k]>>] : k \in DOMAIN all_params})
    IN  [params |-> all_params,
         pairs |-> [i \in DOMAIN vec_arams |-> vec_arams[i].p],
         nonce |-> signature_nonce,
         canonical |-> Join([i \in DOMAIN vec_arams |-> vec_arams[i].s],
                            <<Ord("&")>>)]

\* Aliyun::signature: STANDARD.encode of the HMAC-SHA1 digest.
signature(digest) == Base64Standard(digest)

\* Aliyun::send_sms up to the URL it requests.
send_sms(self, phone_numbers, sign_name, template_code, template_param, t, digest) ==
    LET params ==
            (B(<<"P", "h", "o", "n", "e", "N", "u", "m", "b", "e", "r", "s">>) :> phone_numbers)
         @@ (B(<<"S", "i", "g", "n", "N", "a", "m", "e">>) :> sign_name)
         @@ (B(<<"T", "e", "m", "p", "l", "a", "t", "e", "C", "o", "d", "e">>) :> template_code)
         @@ (B(<<"R", "e", "g", "i", "o", "n", "I", "d">>) :> B(<<"c", "n", "-", "h", "a", "n", "g", "z", "h", "o", "u">>))
         @@ (B(<<"T", "e", "m", "p", "l", "a", "t", "e", "P", "a", "r", "a",
          "m">>) :> template_param)
         @@ (B(<<"A", "c", "t", "i", "o", "n">>) :> B(<<"S", "e", "n", "d", "S", "m", "s">>))
         @@ (B(<<"V", "e", "r", "s", "i", "o", "n">>) :> SMS_VERSION)
        c == canonicalize_query_string(self, params, t)
        sig == signature(digest)
    IN  [kind |-> "aliyun_sms",
         host |-> SMS_HOST,
         params |-> c.params,
         pairs |-> c.pairs,
         canonical |-> c.canonical,
         string_to_sign |->
             B(<<"G", "E", "T", "&", "%", "2", "F", "&">>) \o urlencoding_encode(c.canonical),
         signature |-> sig,
         nonce |-> c.nonce,
         url |-> Concat(<<SMS_HOST, <<Ord("?")>>, c.canonical,
                          B(<<"&", "S", "i", "g", "n", "a", "t", "u", "r", "e", "=">>), sig>>)]

SmsSelf == [access_key_id |-> B(<<"L", "T", "A", "I">>)]

\* SmsService::send_via_provider sends one message through Aliyun.
BuildAliyunSms ==
    \E sign_name \in {B(<<"s", "i", "g", "n", " ", "1">>)},
       template_param \in ParamValues, digest \in Sha1Digests :
        /\ req.kind # "encode" /\ req.kind # "canonicalize"
        /\ Requests < MaxRequests
        /\ req' = send_sms(SmsSelf, B(<<"1", "3", "8", "0", "0", "0", "0", "0", "0", "0", "0">>), sign_name,
                           B(<<"S", "M", "S", "_", "1">>), template_param, clock, digest)
        /\ nonceLog' = Append(nonceLog, [client |-> "aliyun_sms", nonce |-> req'.nonce])
        /\ UNCHANGED <<cacheVars, respVars, extVars, clock>>

\* Parameter names canonicalize_query_string may be handed: one a prefix of
\* another, with a character below '=' after the prefix, and one of the
\* common names.
ParamKeys ==
    {B(<<"A">>), B(<<"A", "0">>), B(<<"A", ".", "b">>), B(<<"F", "o", "r", "m", "a", "t">>)}
ParamSets ==
    UNION {[ks -> ParamValues] : ks \in {s \in SUBSET ParamKeys : Cardinality(s) \in 1..2}}

\* canonicalize_query_string on its own, for any parameter map.
CanonicalizeQueryString ==
    \E params \in ParamSets :
        /\ req = NoReq
        /\ req' = [kind |-> "canonicalize"] @@
                  canonicalize_query_string(SmsSelf, params, clock)
        /\ UNCHANGED <<cacheVars, respVars, extVars, clock, nonceLog>>


\* ------------------------------------------------------------------ bounds
\* rand::random::<u32>() is any value from 0 to MaxNonce.
MaxNonce == 1

\* --------------------------------------- Variant B: the header signers
\* SHA-256, HMAC-SHA256 and hex::encode are not computed: each is the term
\* of its arguments, so that different arguments give different results.
Sha256(data) == <<"sha256", data>>
Hmac(key, data) == <<"hmac", key, data>>
HexEncode(bytes) == <<"hex", bytes>>
\* serde_json's rendering of a value: the text is a function of the value.
JsonToString(value) == <<"json", value>>

\* now.format("%Y-%m-%d"): every clock reading of the model lies in the
\* first day of the epoch.
FormatDate(t) == "1970-01-01"
\* now.timestamp(): seconds
UnixTimestamp(t) == t \div 1000000

RECURSIVE SortKeys(_)
\* keys.sort()
SortKeys(ks) ==
    IF ks = {} THEN <<>>
    ELSE LET m == CHOOSE k \in ks : \A q \in ks \ {k} : LexLess(k, q)
         IN  <<m>> \o SortKeys(ks \ {m})

\* StsClient::build_canonical_query_string
build_canonical_query_string(params) ==
    LET keys == SortKeys(DOMAIN params)
    IN  Join([i \in DOMAIN keys |->
                tencent_url_encode(keys[i]) \o <<Ord("=")>>
                    \o tencent_url_encode(params[keys[i]])],
             <<Ord("&")>>)

\* A key derivation that leaves the service step out.
calculate_signature_noService(self, date, string_to_sign) ==
    LET secret_date == Hmac(<<"TC3", self.secret_key>>, date)
        secret_signing == Hmac(secret_date, "tc3_request")
    IN  HexEncode(Hmac(secret_signing, string_to_sign))

\* StsClient::calculate_signature
calculate_signature(self, date, string_to_sign) ==
    LET secret_date == Hmac(<<"TC3", self.secret_key>>, date)
        secret_service == Hmac(secret_date, self.service)
        secret_signing == Hmac(secret_service, "tc3_request")
    IN  HexEncode(Hmac(secret_signing, string_to_sign))

\* StsClient::send_request up to the request it posts.  A text made by
\* format! is the sequence of its lines, a line the sequence of its parts.
send_request(self, params, t, nonce) ==
    LET timestamp == UnixTimestamp(t)
        date == FormatDate(t)
        final_params ==
            (B(<<"T", "i", "m", "e", "s", "t", "a", "m", "p">>) :> ToDecimal(timestamp))
         @@ (B(<<"N", "o", "n", "c", "e">>) :> ToDecimal(nonce))
         @@ (B(<<"S", "e", "c", "r", "e", "t", "I", "d">>) :> self.secret_id)
         @@ params
        canonical_params == build_canonical_query_string(final_params)
        host == self.endpoint
        canonical_request ==
            << <<"POST">>, <<"/">>, <<canonical_params>>,
               <<"host", "=", host>>,
               <<"content-type", "=", "application/json">>,
               <<>>,
               <<"host", ";", "content-type">>,
               <<>> >>
        string_to_sign ==
            << <<"TC3-HMAC-SHA256">>, <<timestamp>>, <<date>>,
               <<HexEncode(Sha256(canonical_request))>> >>
        sig == calculate_signature(self, date, string_to_sign)
    IN  [kind |-> "tencent_sts",
         secret_key |-> self.secret_key,
         date |-> date,
         service |-> self.service,
         nonce |-> final_params[B(<<"N", "o", "n", "c", "e">>)],
         canonical_request |-> canonical_request,
         string_to_sign |-> string_to_sign,
         signature |-> sig,
         authorization |->
             [algorithm |-> "TC3-HMAC-SHA256",
              credential |-> <<self.secret_id, "/", date, "/", self.service>>,
              signed_headers |-> <<"content-type", ";", "host">>,
              signature |-> sig],
         headers |-> [host |-> host, content_type |-> "application/json"],
         body |-> JsonToString(final_params)]

\* StsClient::new
NewTencentSts(region) ==
    [secret_id |-> B(<<"A", "K", "I", "D">>), secret_key |-> "sk",
     endpoint |-> "sts.tencentcloudapi.com", region |-> region,
     service |-> "sts"]

\* params of get_temp_credentials
TempCredentialParams(self, name, policy, duration_seconds) ==
    LET base ==
            (B(<<"A", "c", "t", "i", "o", "n">>) :> B(<<"G", "e", "t", "F", "e", "d", "e", "r", "a", "t", "i", "o", "n",
          "T", "o", "k", "e", "n">>))
         @@ (B(<<"V", "e", "r", "s", "i", "o", "n">>) :> B(<<"2", "0", "1", "8", "-", "0", "8", "-", "1", "3">>))
         @@ (B(<<"R", "e", "g", "i", "o", "n">>) :> self.region)
         @@ (B(<<"N", "a", "m", "e">>) :> name)
        withPolicy ==
            IF policy = None THEN base
            ELSE (B(<<"P", "o", "l", "i", "c", "y">>) :> policy[1]) @@ base
    IN  IF duration_seconds = None THEN withPolicy
        ELSE (B(<<"D", "u", "r", "a", "t", "i", "o", "n", "S", "e", "c", "o", "n",
          "d", "s">>) :> ToDecimal(duration_seconds[1]))
                 @@ withPolicy

\* get_temp_credentials builds and signs one request.
BuildTencentSts ==
    \E policy \in {None, Some(B(<<"{", "\"", "a", "\"", ":", " ", "1", "}">>))},
       duration_seconds \in {Some(7200)}, nonce \in 0..MaxNonce :
        /\ req.kind # "encode" /\ req.kind # "canonicalize"
        /\ Requests < MaxRequests
        /\ LET self == NewTencentSts(B(<<"a", "p", "-", "g", "u", "a", "n", "g", "z", "h", "o", "u">>))
           IN  req' = send_request(self,
                          TempCredentialParams(self, B(<<"n", "1">>), policy, duration_seconds),
                          clock, nonce)
        /\ nonceLog' = Append(nonceLog, [client |-> "tencent_sts", nonce |-> req'.nonce])
        /\ UNCHANGED <<cacheVars, respVars, extVars, clock>>

\* ---- Tencent SMS client
TC_HOST == "sms.tencentcloudapi.com"
TC_VERSION == "2021-01-11"
SERVICE == "sms"
\* CONTENT_TYPE, in its parts
CONTENT_TYPE == <<"content-type", ":", "application/json; charset=utf-8">>

\* str::to_lowercase on the action names the client uses.
ToLowercase(s) == IF s = "SendSms" THEN "sendsms" ELSE s

\* Tencent::signature
tencent_signature(self, time_date, string_to_sign) ==
    LET secret_date == Hmac(<<"TC3", self.secret_key>>, time_date)
        secret_service == Hmac(secret_date, SERVICE)
        secret_signing == Hmac(secret_service, "tc3_request")
    IN  HexEncode(Hmac(secret_signing, string_to_sign))

\* Tencent::builder_headers
builder_headers(self, region, action, time, signature_str) ==
    [authorization |->
         [algorithm |-> "TC3-HMAC-SHA256",
          credential |-> <<self.secret_id, "/", FormatDate(time), "/", SERVICE,
                           "/", "tc3_request">>,
          signed_headers |-> <<"content-type", ";", "host", ";", "x-tc-action">>,
          signature |-> signature_str],
     headers |-> [content_type |-> "application/json; charset=utf-8",
                  host |-> TC_HOST,
                  x_tc_action |-> action,
                  x_tc_timestamp |-> UnixTimestamp(time),
                  x_tc_version |-> TC_VERSION,
                  x_tc_region |-> region]]

\* Tencent::send_sms up to the request it posts.
tencent_send_sms(self, region, sign_name, phone_numbers, template_id, template_param, time) ==
    LET action == "SendSms"
        req_json == [PhoneNumberSet |-> phone_numbers,
                     SmsSdkAppId |-> self.sms_app_id,
                     SignName |-> sign_name,
                     TemplateId |-> template_id,
                     TemplateParamSet |-> template_param]
        hashed_request_payload == Sha256(JsonToString(req_json))
        sign ==
            << <<"POST">>, <<"/">>, <<>>,
               CONTENT_TYPE,
               <<"host", ":", TC_HOST>>,
               <<"x-tc-action", ":", ToLowercase(action)>>,
               <<>>,
               <<"content-type", ";", "host", ";", "x-tc-action">>,
               <<HexEncode(hashed_request_payload)>> >>
        time_date == FormatDate(time)
        string_to_sign ==
            << <<"TC3-HMAC-SHA256">>, <<UnixTimestamp(time)>>,
               <<time_date, "/", SERVICE, "/", "tc3_request">>,
               <<HexEncode(Sha256(sign))>> >>
        signature_str == tencent_signature(self, time_date, string_to_sign)
        h == builder_headers(self, region, action, time, signature_str)
    IN  [kind |-> "tencent_sms",
         secret_key |-> self.secret_key,
         date |-> time_date,
         service |-> SERVICE,
         nonce |-> <<>>,
         canonical_request |-> sign,
         string_to_sign |-> string_to_sign,
         signature |-> signature_str,
         authorization |-> h.authorization,
         headers |-> h.headers,
         body |-> JsonToString(req_json)]

\* Tencent::new
NewTencentSms == [secret_id |-> B(<<"A", "K", "I", "D">>), secret_key |-> "sk", sms_app_id |-> "1400"]

\* SmsService::send_via_provider sends one message through Tencent.
BuildTencentSms ==
    \E sign_name \in {"sign"}, code \in {"1234", "0000"} :
        /\ req.kind # "encode" /\ req.kind # "canonicalize"
        /\ Requests < MaxRequests
        /\ req' = tencent_send_sms(NewTencentSms, "ap-guangzhou", sign_name,
                                   <<"+8613800000000">>, "T1", <<code>>, clock)
        /\ nonceLog' = Append(nonceLog, [client |-> "tencent_sms", nonce |-> <<>>])
        /\ UNCHANGED <<cacheVars, respVars, extVars, clock>>

NextSign ==
    \/ Encode
    \/ CanonicalizeQueryString
    \/ BuildAliyunSts
    \/ BuildAliyunSms
    \/ BuildTencentSts
    \/ BuildTencentSms
    \/ ClockTick

SpecSign == InitSign /\ [][NextSign]_vars


\* ------------------------------------- claims on the query-signing clients
VariantA == req.kind \in {"aliyun_sts", "aliyun_sms"}
BuildsQuery == req.kind \in {"aliyun_sts", "aliyun_sms", "canonicalize"}

Positions(s, sep) == {i \in DOMAIN s : s[i] = sep}
Nth(S, k) == CHOOSE i \in S : Cardinality({j \in S : j < i}) = k - 1
\* The parts of s between the separators.
SplitOn(s, sep) ==
    LET S == Positions(s, sep)
        n == Cardinality(S)
    IN  [k \in 1..(n + 1) |->
            SubSeq(s, IF k = 1 THEN 1 ELSE Nth(S, k - 1) + 1,
                      IF k = n + 1 THEN Len(s) ELSE Nth(S, k) - 1)]
\* A part "key=value" is cut at its first '='.
KeyPart(part) ==
    LET S == Positions(part, Ord("="))
    IN  IF S = {} THEN part ELSE SubSeq(part, 1, Nth(S, 1) - 1)
ValuePart(part) ==
    LET S == Positions(part, Ord("="))
    IN  IF S = {} THEN <<>> ELSE SubSeq(part, Nth(S, 1) + 1, Len(part))
QueryParts == SplitOn(req.canonical, Ord("&"))

\* The query string that was signed: the string to sign is
\* "GET&%2F&" followed by the percent-encoded canonical query string.
SignedQuery ==
    PercentDecode(SubSeq(req.string_to_sign, 9, Len(req.string_to_sign)))
UrlBeforeSignature ==
    Concat(<<req.host, <<Ord("?")>>, SignedQuery,
             B(<<"&", "S", "i", "g", "n", "a", "t", "u", "r", "e", "=">>)>>)
SignatureInUrl ==
    SubSeq(req.url, Len(UrlBeforeSignature) + 1, Len(req.url))

\* C11: the URL of a query-signing client is the endpoint, '?', the very
\* query string that was signed, "&Signature=" and the percent-encoded
\* base64 signature; the Signature value holds no raw '+', '/' or '='.
C11_UrlCarriesEncodedSignature ==
    VariantA =>
        /\ SubSeq(req.url, 1, Len(UrlBeforeSignature)) = UrlBeforeSignature
        /\ PercentDecode(SignatureInUrl) = req.signature
        /\ OnlyUnreservedAndEscapes(SignatureInUrl)
        /\ \A i \in DOMAIN SignatureInUrl :
              SignatureInUrl[i] \notin {Ord("+"), Ord("/"), Ord("=")}

NonceClients == {"aliyun_sts", "aliyun_sms", "tencent_sts"}
\* C13: no two requests built by a client carry the same nonce.
C13_NoncesNeverRepeat ==
    \A i, j \in DOMAIN nonceLog :
        (i < j /\ nonceLog[i].client \in NonceClients
               /\ nonceLog[i].client = nonceLog[j].client)
            => nonceLog[i].nonce # nonceLog[j].nonce

\* C17: cutting the canonical query string at '&' and at '=' and reading the
\* escapes back gives the parameters the string was built from, each once
\* and with its own value.
C17_QueryRoundTrip ==
    BuildsQuery =>
        /\ Len(QueryParts) = Cardinality(DOMAIN req.params)
        /\ {<<PercentDecode(KeyPart(QueryParts[i])),
              PercentDecode(ValuePart(QueryParts[i]))>> : i \in DOMAIN QueryParts}
              = {<<k, req.params[k]>> : k \in DOMAIN req.params}
\* A signed STS URL whose RoleArn holds a space, '+', '&', '=', '%' and '/'.
C17_Witness ==
    /\ req.kind = "aliyun_sts"
    /\ req.params[B(<<"R", "o", "l", "e", "A", "r", "n">>)]
          = B(<<"a", " ", "b", "+", "c", "&", "y", "=", "z", "%", "/">>)
    /\ \E i \in DOMAIN QueryParts :
          QueryParts[i] = B(<<"R", "o", "l", "e", "A", "r", "n", "=", "a", "%", "2", "0", "b",
          "%", "2", "B", "c", "%", "2", "6", "y", "%", "3", "D", "z", "%", "2",
          "5", "%", "2", "F">>)


\* ------------------------------------ claims on the header-signing clients
VariantB == req.kind \in {"tencent_sts", "tencent_sms"}
\* The canonical request is METHOD, URI, query string, the header lines, an
\* empty line, the signed header names and the payload hash.
BlankLine ==
    CHOOSE i \in 4..Len(req.canonical_request) :
        /\ req.canonical_request[i] = <<>>
        /\ \A j \in 4..(i - 1) : req.canonical_request[j] # <<>>
HeaderLines == SubSeq(req.canonical_request, 4, BlankLine - 1)
SignedHeaderLine == req.canonical_request[BlankLine + 1]
\* The names of a list "a;b;c", in order.
Names(list) == [k \in 1..((Len(list) + 1) \div 2) |-> list[2 * k - 1]]
\* The value the request sends for a header (header names are
\* case-insensitive).
HeaderSent(name) ==
    CASE name = "host" -> req.headers.host
      [] name = "content-type" -> req.headers.content_type
      [] name = "x-tc-action" -> req.headers.x_tc_action

\* C14: the signed header names of the canonical request are those of the
\* Authorization header's SignedHeaders, in the same order, and every header
\* line of the canonical request is name:value with the (lowercased) value
\* of the header the request sends.
C14_SignedHeadersMatch ==
    VariantB =>
        /\ Names(SignedHeaderLine) = Names(req.authorization.signed_headers)
        /\ \A i \in DOMAIN HeaderLines :
              /\ Len(HeaderLines[i]) = 3
              /\ HeaderLines[i][2] = ":"
              /\ HeaderLines[i][3] = ToLowercase(HeaderSent(HeaderLines[i][1]))

\* C15: the canonical request ends with hex(sha256(body)) of the body that
\* is posted.
C15_PayloadHashOfSentBody ==
    VariantB =>
        req.canonical_request[Len(req.canonical_request)]
            = <<HexEncode(Sha256(req.body))>>

CredentialScope == <<req.date, "/", req.service, "/", "tc3_request">>
DerivedSignature ==
    HexEncode(Hmac(Hmac(Hmac(Hmac(<<"TC3", req.secret_key>>, req.date),
                             req.service),
                        "tc3_request"),
                   req.string_to_sign))

\* C16: the credential scope date/service/tc3_request is the third line of
\* the string to sign, follows the key id in Credential= of the
\* Authorization header, and names the steps of the key derivation.
C16_ScopeInThreePlaces ==
    VariantB =>
        /\ req.string_to_sign[3] = CredentialScope
        /\ SubSeq(req.authorization.credential, 3,
                  Len(req.authorization.credential)) = CredentialScope
        /\ req.signature = DerivedSignature

\* The signature either client computes for a secret, service, date and
\* string to sign.
SignatureFor(service, date, string_to_sign) ==
    IF service = SERVICE
    THEN tencent_signature([secret_key |-> req.secret_key], date, string_to_sign)
    ELSE calculate_signature([secret_key |-> req.secret_key, service |-> service],
                             date, string_to_sign)

\* C20: the signature is hex(HMAC(HMAC(HMAC(HMAC("TC3"+secret, date),
\* service), "tc3_request"), string to sign)), and changing the date, the
\* service or the string to sign alone gives another signature.
C20_SignatureDeterminedByInputs ==
    VariantB =>
        /\ req.signature = DerivedSignature
        /\ req.authorization.signature = req.signature
        /\ SignatureFor(req.service, req.date, req.string_to_sign) = req.signature
        /\ \A d \in {"1970-01-01", "1970-01-02"} \ {req.date} :
              SignatureFor(req.service, d, req.string_to_sign) # req.signature
        /\ \A svc \in {"sts", "sms", "cam"} \ {req.service} :
              SignatureFor(svc, req.date, req.string_to_sign) # req.signature
        /\ \A s \in {<<>>, <<<<"TC3-HMAC-SHA256">>>>} \ {req.string_to_sign} :
              SignatureFor(req.service, req.date, s) # req.signature
\* Both clients have signed a request.
C20_Witness ==
    /\ req.kind = "tencent_sms"
    /\ req.signature = DerivedSignature
    /\ \E i \in DOMAIN nonceLog : nonceLog[i].client = "tencent_sts"


\* -------------------------------------------------------------------
\* SpecCos: CosService::get_cos_sts and its three backends. The expiration
\* of an AwsStsVo is a String, modelled as the bytes the code puts there.
\* -------------------------------------------------------------------
MaxCosTime == 5

CosTypes == {"aliyun", "rustfs", "minio", "oss"}
CosLifetimes == {900, 3600}

TwoDigits(n) == <<48 + (n \div 10), 48 + (n % 10)>>

\* The provider's Expiration field: the ISO-8601 UTC instant at which the
\* credential issued at second `at` for `lifetime` seconds ends.
Iso8601(sec) ==
    Concat(<<B(<<"1","9","7","0","-","0","1","-">>), TwoDigits(1 + (sec \div 86400)),
             B(<<"T">>), TwoDigits((sec % 86400) \div 3600), B(<<":">>),
             TwoDigits((sec % 3600) \div 60), B(<<":">>), TwoDigits(sec % 60),
             B(<<"Z">>)>>)

ProviderExpiration(in) == Iso8601(in.at + in.lifetime)

CosInputs ==
    [cos_type : CosTypes, at : 0..MaxCosTime, lifetime : CosLifetimes,
     cache : {"hit", "miss", "err"}, provider : {"ok", "err"}]

CosVo(id, token, exp) ==
    [access_key_id |-> id, access_key_secret |-> "secret",
     security_token |-> token, expiration |-> exp]
CosOk(vo) == [ok |-> TRUE, vo |-> vo, err |-> ""]
CosErr(e) == [ok |-> FALSE, vo |-> CosVo("", "", <<>>), err |-> e]

\* get_aliyun_sts as get_cos_sts sees it: the cached credential, or the one
\* built from the provider's response, or the error of Redis or of the
\* provider.
get_aliyun_sts(in) ==
    CASE in.cache = "err" -> CosErr("RedisError")
      [] in.cache = "hit" -> CosOk(CosVo("STS.ak", "token", ProviderExpiration(in)))
      [] in.provider = "err" -> CosErr("ClientError")
      [] OTHER -> CosOk(CosVo("STS.ak", "token", ProviderExpiration(in)))

get_rustfs_sts(in) == CosOk(CosVo("rustfs.ak", "", B(<<"3","6","0","0">>)))

get_minio_sts(in) == CosOk(CosVo("minio.ak", "", B(<<"3","6","0","0">>)))

get_cos_sts(in) ==
    CASE in.cos_type = "aliyun" -> get_aliyun_sts(in)
      [] in.cos_type = "rustfs" -> get_rustfs_sts(in)
      [] in.cos_type = "minio" -> get_minio_sts(in)
      [] OTHER -> CosErr("ClientError")

InitCos ==
    /\ CosOthersIdle
    /\ cosIn \in CosInputs
    /\ cosOut = <<>>

GetCosStsAliyun ==
    /\ cosOut = <<>> /\ cosIn.cos_type = "aliyun"
    /\ cosOut' = get_cos_sts(cosIn)
    /\ UNCHANGED <<cosOthers, cosIn>>

GetCosStsRustfs ==
    /\ cosOut = <<>> /\ cosIn.cos_type = "rustfs"
    /\ cosOut' = get_cos_sts(cosIn)
    /\ UNCHANGED <<cosOthers, cosIn>>

GetCosStsMinio ==
    /\ cosOut = <<>> /\ cosIn.cos_type = "minio"
    /\ cosOut' = get_cos_sts(cosIn)
    /\ UNCHANGED <<cosOthers, cosIn>>

GetCosStsUnsupported ==
    /\ cosOut = <<>> /\ cosIn.cos_type \notin {"aliyun", "rustfs", "minio"}
    /\ cosOut' = get_cos_sts(cosIn)
    /\ UNCHANGED <<cosOthers, cosIn>>

NextCos ==
    \/ GetCosStsAliyun
    \/ GetCosStsRustfs
    \/ GetCosStsMinio
    \/ GetCosStsUnsupported

SpecCos == InitCos /\ [][NextCos]_vars

IsDigit(b) == b \in 48..57
\* A string of the shape YYYY-MM-DDThh:mm:ssZ: an instant, readable without
\* knowing when the credential was issued.
IsInstant(s) ==
    /\ Len(s) = 20
    /\ s[5] = 45 /\ s[8] = 45 /\ s[11] = 84 /\ s[14] = 58 /\ s[17] = 58 /\ s[20] = 90
    /\ \A i \in (1..20) \ {5, 8, 11, 14, 17, 20} : IsDigit(s[i])
\* A bare number of seconds.
IsDuration(s) == Len(s) > 0 /\ \A i \in DOMAIN s : IsDigit(s[i])

\* C21: every credential get_cos_sts returns, whichever backend is
\* configured, carries an expiration that is a point in time and not a
\* duration.
C21_ExpirationIsInstant ==
    (cosOut # <<>> /\ cosOut.ok) =>
        (IsInstant(cosOut.vo.expiration) /\ ~IsDuration(cosOut.vo.expiration))


\* -------------------------------------------------------------------
\* SpecLock: the distributed lock of RedisPool (acquire_lock, release_lock,
\* try_acquire_lock_with_retry, release_lock_if) on one key. Time is in
\* milliseconds and is the clock both of Redis (PX expiry) and of the
\* callers (the timestamp in a generated token).
\* -------------------------------------------------------------------
MaxLockTime == 2
MaxLockTtl == 1
MaxRetries == 1

LockTtls == 0..MaxLockTtl

NoLock == [value |-> <<>>, expires |-> 0, by |-> 0]
\* Redis holds the key until its PX time has passed.
LockLive(entry) == entry # NoLock /\ lockNow < entry.expires

\* format!("{}:{}:{}", pid, thread_name, ts): the callers are tasks of one
\* process on threads of one name, so the timestamp alone tells two
\* generated tokens apart.
GeneratedToken == <<"pid", "thread", lockNow>>
\* token: Option<&str>; a caller that passes a token passes its own.
OwnToken(c) == <<"caller", c>>
LockValue(c, token) == IF token # None THEN token[1] ELSE GeneratedToken
TokenArgs(c) == {None, Some(OwnToken(c))}

\* SET without NX.
SetNxPx_noNx(entry, value, ttl_ms, by) ==
    [entry |-> [value |-> value, expires |-> lockNow + ttl_ms, by |-> by],
     reply |-> Some("OK")]

\* SET key value NX PX ttl_ms; `by` records who sent the command.
SetNxPx(entry, value, ttl_ms, by) ==
    IF LockLive(entry)
    THEN [entry |-> entry, reply |-> None]
    ELSE [entry |-> [value |-> value, expires |-> lockNow + ttl_ms, by |-> by],
          reply |-> Some("OK")]

\* DEL without the comparison.
ReleaseScript_noCompare(entry, token) ==
    IF LockLive(entry)
    THEN [entry |-> NoLock, deleted |-> 1]
    ELSE [entry |-> entry, deleted |-> 0]

\* The Lua script of release_lock: GET, compare, DEL, as one Redis command.
ReleaseScript(entry, token) ==
    IF LockLive(entry) /\ entry.value = token
    THEN [entry |-> NoLock, deleted |-> 1]
    ELSE [entry |-> entry, deleted |-> 0]

IdleLocker ==
    [pc |-> "idle", token |-> None, until |-> 0, tries |-> 0]
NoLockOp ==
    [op |-> "none", c |-> 0, res |-> <<>>, before |-> NoLock, after |-> NoLock,
     at |-> 0, token |-> <<>>, ttl |-> 0]
LockOp(op, c, res, after, token, ttl) ==
    [op |-> op, c |-> c, res |-> res, before |-> lockEntry, after |-> after,
     at |-> lockNow, token |-> token, ttl |-> ttl]

InitLock ==
    /\ LockOthersIdle
    /\ lockNow = 0
    /\ lockEntry = NoLock
    /\ lockHeld = [c \in Callers |-> IdleLocker]
    /\ lockLast = NoLockOp

\* acquire_lock(key, ttl, token) by a caller that holds no token. A ttl
\* below one millisecond gives PX 0, which Redis refuses: the `?` returns
\* the error (an operation with ttl 0 in lockLast).
AcquireLock(c) ==
    /\ lockHeld[c].pc = "idle"
    /\ \E ttl \in LockTtls, token \in TokenArgs(c) :
        LET value == LockValue(c, token)
            set == SetNxPx(lockEntry, value, ttl, c)
        IN IF ttl = 0
           THEN /\ lockLast' = LockOp("acquire", c, None, lockEntry, value, ttl)
                /\ UNCHANGED <<lockEntry, lockHeld>>
           ELSE /\ lockEntry' = set.entry
                /\ lockLast' = LockOp("acquire", c,
                                      IF set.reply # None THEN Some(value) ELSE None,
                                      set.entry, value, ttl)
                /\ lockHeld' = IF set.reply # None
                               THEN [lockHeld EXCEPT ![c].pc = "holding",
                                                     ![c].token = Some(value),
                                                     ![c].until = lockNow + ttl]
                               ELSE lockHeld
    /\ UNCHANGED <<lockOthers, lockNow>>

\* release_lock(key, token) by the caller that was given the token.
ReleaseLock(c) ==
    /\ lockHeld[c].pc = "holding"
    /\ LET rel == ReleaseScript(lockEntry, lockHeld[c].token[1])
       IN /\ lockEntry' = rel.entry
          /\ lockLast' = LockOp("release", c, rel.deleted > 0, rel.entry,
                                lockHeld[c].token[1], 0)
    /\ lockHeld' = [lockHeld EXCEPT ![c] = IdleLocker]
    /\ UNCHANGED <<lockOthers, lockNow>>

\* release_lock_if(key, token): nothing for None, else release_lock with the
\* result dropped.
ReleaseLockIf(c) ==
    /\ lockHeld[c].pc \in {"idle", "holding"}
    /\ LET token == lockHeld[c].token
           rel == IF token = None THEN [entry |-> lockEntry, deleted |-> 0]
                  ELSE ReleaseScript(lockEntry, token[1])
       IN /\ lockEntry' = rel.entry
          /\ lockLast' = IF token = None
                          THEN LockOp("release_if_none", c, FALSE, rel.entry, <<>>, 0)
                          ELSE LockOp("release", c, rel.deleted > 0, rel.entry, token[1], 0)
    /\ lockHeld' = [lockHeld EXCEPT ![c] = IdleLocker]
    /\ UNCHANGED <<lockOthers, lockNow>>

\* try_acquire_lock_with_retry(key, ttl, retries, backoff, token): entry,
\* here with the longest ttl, a backoff of one millisecond and no token.
TryAcquireStart(c) ==
    /\ lockHeld[c].pc = "idle"
    /\ \E retries \in 0..MaxRetries :
        lockHeld' = [lockHeld EXCEPT ![c].pc = "retry", ![c].tries = retries]
    /\ UNCHANGED <<lockOthers, lockNow, lockEntry, lockLast>>

\* One turn of its loop: acquire_lock, then return or sleep(backoff); after
\* `retries` turns Ok(None).
TryAcquireTurn(c) ==
    /\ lockHeld[c].pc = "retry"
    /\ LET h == lockHeld[c]
           value == LockValue(c, None)
           set == SetNxPx(lockEntry, value, MaxLockTtl, c)
       IN IF h.tries = 0
          THEN /\ lockLast' = LockOp("retry_over", c, None, lockEntry, value, MaxLockTtl)
               /\ lockHeld' = [lockHeld EXCEPT ![c] = IdleLocker]
               /\ UNCHANGED lockEntry
          ELSE /\ lockEntry' = set.entry
               /\ lockLast' = LockOp("acquire", c,
                                     IF set.reply # None THEN Some(value) ELSE None,
                                     set.entry, value, MaxLockTtl)
               /\ lockHeld' = IF set.reply # None
                              THEN [lockHeld EXCEPT ![c] =
                                      [IdleLocker EXCEPT !.pc = "holding",
                                                         !.token = Some(value),
                                                         !.until = lockNow + MaxLockTtl]]
                              ELSE [lockHeld EXCEPT ![c].tries = h.tries - 1,
                                                    ![c].pc = "sleep"]
    /\ UNCHANGED <<lockOthers, lockNow>>

\* A millisecond passes; the sleep(backoff) of a retry loop is over.
LockTick ==
    /\ lockNow < MaxLockTime
    /\ lockNow' = lockNow + 1
    /\ lockHeld' = [c \in Callers |->
                      IF lockHeld[c].pc = "sleep"
                      THEN [lockHeld[c] EXCEPT !.pc = "retry"] ELSE lockHeld[c]]
    /\ UNCHANGED <<lockOthers, lockEntry, lockLast>>

NextLock ==
    \/ \E c \in Callers : AcquireLock(c)
    \/ \E c \in Callers : ReleaseLock(c)
    \/ \E c \in Callers : ReleaseLockIf(c)
    \/ \E c \in Callers : TryAcquireStart(c)
    \/ \E c \in Callers : TryAcquireTurn(c)
    \/ LockTick

SpecLock == InitLock /\ [][NextLock]_vars


\* A caller holds the lock from its successful acquire_lock until it
\* releases or its lease runs out.
Holding(c) == lockHeld[c].pc = "holding" /\ lockNow < lockHeld[c].until
WasLive(op) == op.before # NoLock /\ op.at < op.before.expires

\* C22: at most one caller holds the lock of a key at any time; while one
\* holds it the key is its own and every acquire_lock of another caller
\* returns None, and once the lease is over (or the lock released) the next
\* acquire_lock succeeds.
C22_MutualExclusion ==
    /\ Cardinality({c \in Callers : Holding(c)}) <= 1
    /\ \A c \in Callers : Holding(c) => (LockLive(lockEntry) /\ lockEntry.by = c)
    /\ (lockLast.op = "acquire" /\ lockLast.ttl > 0) =>
          ((lockLast.res = None) <=> WasLive(lockLast))

C22_Witness ==
    /\ lockLast.op = "acquire" /\ lockLast.ttl > 0 /\ lockLast.res = None
    /\ \E d \in Callers \ {lockLast.c} : Holding(d)

\* C23: release_lock deletes the key exactly when the value stored under it
\* is the token presented; a caller whose lease is over and whose key is now
\* the lock of another caller gets false, and that lock stays as it was.
C23_ReleaseOnlyOwnToken ==
    lockLast.op = "release" =>
        LET match == WasLive(lockLast) /\ lockLast.before.value = lockLast.token
        IN /\ lockLast.res = match
           /\ match => lockLast.after = NoLock
           /\ ~match => lockLast.after = lockLast.before
           /\ (WasLive(lockLast) /\ lockLast.before.by # lockLast.c) =>
                 (lockLast.res = FALSE /\ lockLast.after = lockLast.before)

C23_Witness ==
    /\ lockLast.op = "release" /\ lockLast.res = FALSE
    /\ WasLive(lockLast) /\ lockLast.before.by # lockLast.c
    /\ lockLast.before.value[1] = "pid"
    /\ lockEntry = lockLast.before


\* -------------------------------------------------------------------
\* SpecRetry: retry_async(operation, strategy) with a RetryIntervals
\* strategy. The operation is any closure: each invocation ends in Ok or in
\* an error of its own.
\* -------------------------------------------------------------------
MaxIntervals == 3

RetryDelays == {0, 10}
\* RetryIntervals::new(intervals) and RetryIntervals::fixed(count, duration)
RetryIntervals == UNION {[1..n -> RetryDelays] : n \in 0..MaxIntervals}
new(intervals) == [intervals |-> intervals, current |-> 0]

next_delay_skipLast(strategy) ==
    IF strategy.current + 1 < Len(strategy.intervals)
    THEN [delay |-> Some(strategy.intervals[strategy.current + 1]),
          strategy |-> [strategy EXCEPT !.current = @ + 1]]
    ELSE [delay |-> None, strategy |-> strategy]
\* RetryIntervals::next_delay(&mut self): the delay, and self afterwards.
next_delay(strategy) ==
    IF strategy.current < Len(strategy.intervals)
    THEN [delay |-> Some(strategy.intervals[strategy.current + 1]),
          strategy |-> [strategy EXCEPT !.current = @ + 1]]
    ELSE [delay |-> None, strategy |-> strategy]

\* The outcome of the k-th invocation of the operation.
OpOk(k) == [ok |-> TRUE, of |-> k]
OpErr(k) == [ok |-> FALSE, of |-> k]

InitRetry ==
    /\ RetryOthersIdle
    /\ retryStrategy \in {new(iv) : iv \in RetryIntervals}
    /\ retryLog = <<>>
    /\ retryPc = "call"
    /\ retrySleep = 0
    /\ retryResult = <<>>

\* operation().await gives Ok(result): return Ok(result).
InvokeOk ==
    /\ retryPc = "call"
    /\ retryLog' = Append(retryLog, OpOk(Len(retryLog) + 1))
    /\ retryResult' = OpOk(Len(retryLog) + 1)
    /\ retryPc' = "done"
    /\ UNCHANGED <<retryOthers, retryStrategy, retrySleep>>

\* operation().await gives Err(e): sleep for the next delay of the strategy,
\* or return Err(e) when it has none left.
InvokeErr ==
    /\ retryPc = "call"
    /\ LET e == OpErr(Len(retryLog) + 1)
           nd == next_delay(retryStrategy)
       IN /\ retryLog' = Append(retryLog, e)
          /\ retryStrategy' = nd.strategy
          /\ IF nd.delay # None
             THEN /\ retryPc' = "sleep"
                  /\ retrySleep' = nd.delay[1]
                  /\ UNCHANGED retryResult
             ELSE /\ retryPc' = "done"
                  /\ retryResult' = e
                  /\ UNCHANGED retrySleep
    /\ UNCHANGED retryOthers

\* sleep(delay).await is over: the loop turns.
SleepOver ==
    /\ retryPc = "sleep"
    /\ retryPc' = "call"
    /\ retrySleep' = 0
    /\ UNCHANGED <<retryOthers, retryStrategy, retryLog, retryResult>>

NextRetry ==
    \/ InvokeOk
    \/ InvokeErr
    \/ SleepOver

\* Each future retry_async awaits (the operation's, the sleep's) completes.
SpecRetry == InitRetry /\ [][NextRetry]_vars /\ WF_vars(NextRetry)

Invocations == Len(retryLog)
RetryBounded ==
    /\ Invocations <= Len(retryStrategy.intervals) + 1
    /\ \A k \in 1..(Invocations - 1) : ~retryLog[k].ok
    /\ retryPc = "done" =>
         /\ Invocations >= 1
         /\ retryResult = retryLog[Invocations]
         /\ ~retryResult.ok => Invocations = Len(retryStrategy.intervals) + 1
    /\ retryPc # "done" => retryResult = <<>>

\* C24: retry_async with n intervals invokes the operation at most n+1
\* times; it returns the first Ok without a further invocation, returns the
\* error of the last attempt after exactly n+1 invocations when every
\* attempt fails, and it always terminates.
C24_RetryBoundedAndTerminates == []RetryBounded /\ <>[](retryPc = "done")

C24_Witness ==
    /\ retryPc = "done"
    /\ Len(retryStrategy.intervals) = 3
    /\ Invocations = 3
    /\ retryResult.ok


\* -------------------------------------------------------------------
\* SpecSnow: the static ID_GENERATOR behind generate_snowflake_uid. Time is
\* in milliseconds counted from EPOCH (2021-01-01), read from a wall clock
\* that may stand still, run on or be set back; the sequence field has
\* SeqBits bits (12 in the source) so that it overflows within a few calls.
\* -------------------------------------------------------------------
SeqBits == 2
MaxSnowMs == 2
MaxIds == 5

WORKER_ID_BITS == 5
DATA_CENTER_ID_BITS == 5
SEQUENCE_BITS == SeqBits
SEQUENCE_MASK == (2 ^ SEQUENCE_BITS) - 1
WORKER_ID_SHIFT == SEQUENCE_BITS
DATA_CENTER_ID_SHIFT == SEQUENCE_BITS + WORKER_ID_BITS
TIMESTAMP_SHIFT == SEQUENCE_BITS + WORKER_ID_BITS + DATA_CENTER_ID_BITS

\* SnowflakeIdGenerator::new(1, 1); last_timestamp 0 is a time before EPOCH.
BeforeEpoch == 0 - 1
ID_GENERATOR ==
    [worker_id |-> 1, data_center_id |-> 1, sequence |-> 0,
     last_timestamp |-> BeforeEpoch]

ClockReadings == 0..MaxSnowMs

\* timestamp.saturating_sub(EPOCH)
TimePart(timestamp) == IF timestamp < 0 THEN 0 ELSE timestamp

wait_for_next_millis_same(reading, last_timestamp) == last_timestamp
\* wait_for_next_millis(last_timestamp), `reading` being what its own
\* current_time_millis() gives.
wait_for_next_millis(reading, last_timestamp) ==
    IF reading <= last_timestamp THEN last_timestamp + 1 ELSE reading

\* generate(&mut self) with the clock reading `first` on entry and `second`
\* inside wait_for_next_millis: the generator afterwards and the ID.
generate(g, first, second) ==
    LET pinned == IF first < g.last_timestamp THEN g.last_timestamp ELSE first
        same == pinned = g.last_timestamp
        sequence == IF same THEN (g.sequence + 1) % (SEQUENCE_MASK + 1) ELSE 0
        timestamp == IF same /\ sequence = 0
                     THEN wait_for_next_millis(second, g.last_timestamp)
                     ELSE pinned
    IN [gen |-> [g EXCEPT !.sequence = sequence, !.last_timestamp = timestamp],
        id |-> TimePart(timestamp) * (2 ^ TIMESTAMP_SHIFT)
               + g.data_center_id * (2 ^ DATA_CENTER_ID_SHIFT)
               + g.worker_id * (2 ^ WORKER_ID_SHIFT)
               + sequence]

InitSnow ==
    /\ SnowOthersIdle
    /\ snowClock \in ClockReadings
    /\ snowGen = ID_GENERATOR
    /\ snowIds = <<>>
    /\ snowSeen = [threads |-> {}, back |-> FALSE, wrapped |-> FALSE]

\* generate_snowflake_uid() by one thread: lock, generate, unlock. The clock
\* may have moved either way by the time wait_for_next_millis reads it.
GenerateSnowflakeUid(th) ==
    /\ Len(snowIds) < MaxIds
    /\ \E second \in ClockReadings :
        LET out == generate(snowGen, snowClock, second)
            waited == snowGen.last_timestamp = (IF snowClock < snowGen.last_timestamp
                                                THEN snowGen.last_timestamp ELSE snowClock)
                      /\ out.gen.sequence = 0
        IN /\ (~waited => second = snowClock)
           /\ snowGen' = out.gen
           /\ snowIds' = Append(snowIds, out.id)
           /\ snowSeen' = [threads |-> snowSeen.threads \cup {th},
                           back |-> snowSeen.back \/ snowClock < snowGen.last_timestamp,
                           wrapped |-> snowSeen.wrapped \/ waited]
           /\ snowClock' = second
    /\ UNCHANGED snowOthers

\* The wall clock runs on.
SnowClockForward ==
    /\ snowClock < MaxSnowMs
    /\ snowClock' = snowClock + 1
    /\ UNCHANGED <<snowOthers, snowGen, snowIds, snowSeen>>

\* The wall clock is set back.
SnowClockBack ==
    /\ \E r \in ClockReadings : r < snowClock /\ snowClock' = r
    /\ UNCHANGED <<snowOthers, snowGen, snowIds, snowSeen>>

NextSnow ==
    \/ \E th \in Callers : GenerateSnowflakeUid(th)
    \/ SnowClockForward
    \/ SnowClockBack

SpecSnow == InitSnow /\ [][NextSnow]_vars

MaxStores == 2
MaxCaptchaOps == 3

\* rand::random::<u32>() % 900000 + 100000: the lowest and the highest code
CaptchaCodes == {100000, 999999}
\* what a user types
CaptchaInputs == {ToDecimal(code) : code \in CaptchaCodes}

\* What the provider's client returns to send_via_provider: the transport
\* failed, or a decoded response with its status code.
ProviderReplies(provider) ==
    IF provider = "aliyun"
    THEN {[transport |-> "err", code |-> None],
          [transport |-> "ok", code |-> Some("OK")],
          [transport |-> "ok", code |-> Some("isv.BUSINESS_LIMIT_CONTROL")],
          [transport |-> "ok", code |-> None]}
    ELSE {[transport |-> "err", code |-> None],
          [transport |-> "ok", code |-> Some("Ok")],
          [transport |-> "ok", code |-> Some("LimitExceeded.PhoneNumberDailyLimit")],
          [transport |-> "ok", code |-> None]}

\* The provider's own word for a message it accepted.
SuccessCode(provider) == IF provider = "aliyun" THEN "OK" ELSE "Ok"
Reported(provider, reply) ==
    reply.transport = "ok" /\ reply.code = Some(SuccessCode(provider))

\* eq_ignore_ascii_case("Ok")
IgnoreCaseOk == {"Ok", "OK", "ok", "oK"}
send_via_provider_alwaysOk(provider, reply) == TRUE
\* send_via_provider: TRUE for Ok(SmsSendResult). Aliyun: Code is "OK";
\* Tencent: send_status_set[0].code is "Ok", whatever the case of the letters
send_via_provider(provider, reply) ==
    /\ reply.transport = "ok"
    /\ reply.code # None
    /\ IF provider = "aliyun" THEN reply.code[1] = "OK"
       ELSE reply.code[1] \in IgnoreCaseOk

IdleTask ==
    [pc |-> "idle", op |-> "none", mobileOk |-> FALSE, code |-> 0,
     called |-> FALSE, reported |-> FALSE, sent |-> FALSE, wrote |-> FALSE,
     read |-> None,
     captcha |-> <<>>, delete |-> FALSE, res |-> ""]

InitCaptcha ==
    /\ CaptchaOthersIdle
    /\ capCfg \in [debug : BOOLEAN, provider : {"aliyun", "tencent"}]
    /\ capRedis = None
    /\ capSerial = 0
    /\ capOps = 0
    /\ cap = [c \in Callers |-> IdleTask]
    /\ capWins = <<>>

\* send_captcha_with_options up to its first await: the regex, the code, and
\* the branch on config.debug.
SendCaptcha(c) ==
    /\ cap[c].pc = "idle"
    /\ capOps < MaxCaptchaOps
    /\ capOps' = capOps + 1
    /\ \E mobileOk \in BOOLEAN, code \in CaptchaCodes :
        cap' = [cap EXCEPT ![c] =
                  [IdleTask EXCEPT !.op = "send", !.mobileOk = mobileOk,
                                   !.code = IF mobileOk THEN code ELSE 0,
                                   !.pc = IF ~mobileOk THEN "idle"
                                          ELSE IF capCfg.debug THEN "store"
                                          ELSE "provider",
                                   !.called = mobileOk /\ ~capCfg.debug,
                                   !.res = IF mobileOk THEN "" ELSE "Err"]]
    /\ UNCHANGED <<captchaOthers, capCfg, capRedis, capSerial, capWins>>

\* send_via_provider(..).await?
ProviderReply(c) ==
    /\ cap[c].pc = "provider"
    /\ \E reply \in ProviderReplies(capCfg.provider) :
        LET said == Reported(capCfg.provider, reply)
        IN IF send_via_provider(capCfg.provider, reply)
           THEN cap' = [cap EXCEPT ![c].pc = "store", ![c].sent = TRUE,
                                   ![c].reported = said]
           ELSE cap' = [cap EXCEPT ![c].pc = "idle", ![c].res = "Err",
                                   ![c].reported = said]
    /\ UNCHANGED <<captchaOthers, capCfg, capRedis, capSerial, capOps, capWins>>

\* store_captcha_code_with_options(..).await?: SETEX, or the error of Redis.
StoreCaptchaCode(c) ==
    /\ cap[c].pc = "store"
    /\ \/ /\ capSerial < MaxStores
          /\ capSerial' = capSerial + 1
          /\ capRedis' = Some([value |-> ToDecimal(cap[c].code), serial |-> capSerial + 1])
          /\ capWins' = Append(capWins, 0)
          /\ cap' = [cap EXCEPT ![c].pc = "idle", ![c].wrote = TRUE, ![c].res = "Ok"]
       \/ /\ cap' = [cap EXCEPT ![c].pc = "idle", ![c].res = "Err"]
          /\ UNCHANGED <<capRedis, capSerial, capWins>>
    /\ UNCHANGED <<captchaOthers, capCfg, capOps>>

\* valid_auth_captcha: get_captcha_code(..).await?
ValidAuthCaptcha(c) ==
    /\ cap[c].pc = "idle"
    /\ capOps < MaxCaptchaOps
    /\ capOps' = capOps + 1
    /\ \E captcha \in CaptchaInputs, delete \in BOOLEAN :
        cap' = [cap EXCEPT ![c] =
                  [IdleTask EXCEPT !.op = "valid", !.pc = "decide", !.read = capRedis,
                                   !.captcha = captcha, !.delete = delete]]
    /\ UNCHANGED <<captchaOthers, capCfg, capRedis, capSerial, capWins>>

\* valid_auth_captcha after the GET: the match on the code read, with its
\* delete_captcha_code (DEL of whatever the key holds by now).
ValidDecide(c) ==
    /\ cap[c].pc = "decide"
    /\ LET t == cap[c]
           ok == t.read # None /\ t.read[1].value = t.captcha
           del == t.read # None /\ (~ok \/ t.delete)
       IN /\ cap' = [cap EXCEPT ![c].pc = "idle", ![c].res = IF ok THEN "Ok" ELSE "Err"]
          /\ capRedis' = IF del THEN None ELSE capRedis
          /\ capWins' = IF ok /\ t.delete
                        THEN [capWins EXCEPT ![t.read[1].serial] = @ + 1]
                        ELSE capWins
    /\ UNCHANGED <<captchaOthers, capCfg, capSerial, capOps>>

\* The key's expire_seconds are over.
CaptchaExpire ==
    /\ capRedis # None
    /\ capRedis' = None
    /\ UNCHANGED <<captchaOthers, capCfg, capSerial, capOps, cap, capWins>>

NextCaptcha ==
    \/ \E c \in Callers : SendCaptcha(c)
    \/ \E c \in Callers : ProviderReply(c)
    \/ \E c \in Callers : StoreCaptchaCode(c)
    \/ \E c \in Callers : ValidAuthCaptcha(c)
    \/ \E c \in Callers : ValidDecide(c)
    \/ CaptchaExpire

SpecCaptcha == InitCaptcha /\ [][NextCaptcha]_vars

Sends == {c \in Callers : cap[c].op = "send"}
\* C26: outside debug mode the code is written to Redis only after the
\* provider reported success; a mobile that fails the regex leads to no
\* provider call and no write, a failed send to no write, both to an error;
\* in debug mode the code is stored and the provider is not called.
C26_StoreOnlyAfterSend ==
    \A c \in Sends :
        LET t == cap[c] IN
        /\ (t.wrote /\ ~capCfg.debug) => t.reported
        /\ ~t.mobileOk => (~t.called /\ ~t.wrote /\ t.res = "Err")
        /\ (t.called /\ ~t.reported /\ t.pc = "idle") => (~t.wrote /\ t.res = "Err")
        /\ capCfg.debug => ~t.called
        /\ (capCfg.debug /\ t.res = "Ok") => t.wrote
        /\ t.res = "Ok" => t.wrote

C26_Witness ==
    /\ ~capCfg.debug
    /\ \E c, d \in Sends :
        /\ cap[c].wrote /\ cap[c].reported /\ cap[c].res = "Ok"
        /\ cap[d].called /\ ~cap[d].reported /\ cap[d].res = "Err"

\* C27: with delete = true at most one valid_auth_captcha succeeds for a
\* stored code, also among validations that run concurrently.
C27_OneTimeUse == \A s \in DOMAIN capWins : capWins[s] <= 1


\* -------------------------------------------------------------------
\* SpecDate: the clock readings of the two Tencent clients. An instant is
\* a number of seconds since 1970-01-01T00:00:00Z; the host's time zone is
\* its offset from UTC in hours.
\* -------------------------------------------------------------------
MaxHours == 14

\* 2026-01-01T00:00:00Z
Midnight == 1767225600
Instants == {Midnight + h * 3600 + s : h \in (0 - MaxHours)..MaxHours, s \in {0, 3599}}
TzOffsets == {0 - 8, 0, 8}

\* The calendar date of a day counted from 1970-01-01 (proleptic Gregorian).
CivilFromDays(days) ==
    LET z == days + 719468
        era == z \div 146097
        doe == z - era * 146097
        yoe == (doe - doe \div 1460 + doe \div 36524 - doe \div 146096) \div 365
        doy == doe - (365 * yoe + yoe \div 4 - yoe \div 100)
        mp == (5 * doy + 2) \div 153
        d == doy - (153 * mp + 2) \div 5 + 1
        m == IF mp < 10 THEN mp + 3 ELSE mp - 9
        y == yoe + era * 400 + (IF m <= 2 THEN 1 ELSE 0)
    IN [year |-> y, month |-> m, day |-> d]

\* format("%Y-%m-%d") of a date-time whose wall-clock reading is `seconds`
\* after 1970-01-01T00:00:00 of its own time zone.
FormatYmd(seconds) ==
    LET c == CivilFromDays(seconds \div 86400)
    IN Concat(<<ToDecimal(c.year), B(<<"-">>), TwoDigits(c.month), B(<<"-">>),
                TwoDigits(c.day)>>)

\* Local::now(): DateTime<Local>. timestamp() is the instant; format() shows
\* the wall clock of the host's zone.
LocalNow(instant, tz) == [instant |-> instant, offset |-> tz * 3600]
\* chrono::Utc::now()
UtcNow(instant) == [instant |-> instant, offset |-> 0]
timestamp(time) == time.instant
format_ymd(time) == FormatYmd(time.instant + time.offset)

\* Tencent::send_sms, step 2 to 4: the string to sign carries
\* time.timestamp() and the scope time_date; signature() derives the key
\* from time_date; builder_headers sends time.timestamp() as X-TC-Timestamp
\* and time.format("%Y-%m-%d") in the Credential.
TencentSmsTimes(instant, tz) ==
    LET time == LocalNow(instant, tz)
        time_date == format_ymd(time)
    IN [client |-> "tencent_sms", signed_timestamp |-> timestamp(time),
        scope_date |-> time_date, key_date |-> time_date,
        credential_date |-> format_ymd(time), x_tc_timestamp |-> timestamp(time)]

\* StsClient::send_request: now, timestamp and date.
TencentStsTimes(instant) ==
    LET time == UtcNow(instant)
        date == format_ymd(time)
    IN [client |-> "tencent_sts", signed_timestamp |-> timestamp(time),
        scope_date |-> date, key_date |-> date,
        credential_date |-> date, x_tc_timestamp |-> timestamp(time)]

InitDate ==
    /\ DateOthersIdle
    /\ dateIn \in [instant : Instants, tz : TzOffsets]
    /\ dateOut = <<>>

SmsSign ==
    /\ dateOut = <<>>
    /\ dateOut' = TencentSmsTimes(dateIn.instant, dateIn.tz)
    /\ UNCHANGED <<dateOthers, dateIn>>

StsSign ==
    /\ dateOut = <<>>
    /\ dateOut' = TencentStsTimes(dateIn.instant)
    /\ UNCHANGED <<dateOthers, dateIn>>

NextDate ==
    \/ SmsSign
    \/ StsSign

SpecDate == InitDate /\ [][NextDate]_vars

UtcDateOf(unix) == FormatYmd(unix)
\* C28: the date of the credential scope and of the key derivation is the
\* UTC calendar date of the Unix timestamp in the string to sign, which is
\* also the X-TC-Timestamp sent, in every time zone and at every instant.
C28_ScopeDateIsUtcDate ==
    dateOut # <<>> =>
        /\ dateOut.x_tc_timestamp = dateOut.signed_timestamp
        /\ dateOut.scope_date = UtcDateOf(dateOut.signed_timestamp)
        /\ dateOut.key_date = UtcDateOf(dateOut.signed_timestamp)
        /\ dateOut.credential_date = UtcDateOf(dateOut.signed_timestamp)


\* -------------------------------------------------------------------
\* SpecAuth: AuthHelper::generate_auth_token and refresh_auth for one uid,
\* called by concurrent tasks; every Redis command is a step of its own.
\* -------------------------------------------------------------------
MaxPairs == 3
MaxAuthOps == 3

\* Utils::generate_token(): a v4 UUID, the n-th pair's tokens
generate_token(n) == <<"access", n>>
generate_refresh_token(n) == <<"refresh", n>>
AuthTokenResult(n) ==
    [access_token |-> generate_token(n), refresh_token |-> generate_refresh_token(n)]

NoAuthTask == [pc |-> "idle", op |-> "none", old |-> None, new |-> None, arg |-> None, res |-> ""]

InitAuth ==
    /\ AuthOthersIdle
    /\ authUid = None
    /\ authTokens = {}
    /\ authRefresh = {}
    /\ authSerial = 0
    /\ authOps = 0
    /\ auth = [c \in Callers |-> NoAuthTask]
    /\ authExchanged = <<>>

\* generate_auth_token(rdpool, prefix, .., auth_model): entry.
GenerateAuthToken(c) ==
    /\ auth[c].pc = "idle"
    /\ authOps < MaxAuthOps
    /\ authOps' = authOps + 1
    /\ auth' = [auth EXCEPT ![c] = [NoAuthTask EXCEPT !.pc = "del_get", !.op = "generate"]]
    /\ UNCHANGED <<authOthers, authUid, authTokens, authRefresh, authSerial, authExchanged>>

\* refresh_auth(rdpool, prefix, .., access_token, refresh_token): entry, with
\* a pair that was issued before.
RefreshAuth(c) ==
    /\ auth[c].pc = "idle"
    /\ authOps < MaxAuthOps
    /\ authOps' = authOps + 1
    /\ \E n \in 1..authSerial :
        auth' = [auth EXCEPT ![c] = [NoAuthTask EXCEPT !.pc = "ref_model", !.op = "refresh",
                                                      !.arg = Some(AuthTokenResult(n))]]
    /\ UNCHANGED <<authOthers, authUid, authTokens, authRefresh, authSerial, authExchanged>>

\* get_auth_model(refresh_token_key): Unauthorized when the key is absent.
RefreshGetModel(c) ==
    /\ auth[c].pc = "ref_model"
    /\ auth' = IF auth[c].arg[1].refresh_token \in authRefresh
               THEN [auth EXCEPT ![c].pc = "ref_result"]
               ELSE [auth EXCEPT ![c].pc = "idle", ![c].res = "Unauthorized"]
    /\ UNCHANGED <<authOthers, authUid, authTokens, authRefresh, authSerial, authOps, authExchanged>>

\* get_auth_token_result(auth_uid_key) and the two comparisons.
RefreshGetResult(c) ==
    /\ auth[c].pc = "ref_result"
    /\ auth' = IF authUid = None
               THEN [auth EXCEPT ![c].pc = "idle", ![c].res = "TokenExpired"]
               ELSE IF authUid[1] # auth[c].arg[1]
               THEN [auth EXCEPT ![c].pc = "idle", ![c].res = "Unauthorized"]
               ELSE [auth EXCEPT ![c].pc = "del_get"]
    /\ UNCHANGED <<authOthers, authUid, authTokens, authRefresh, authSerial, authOps, authExchanged>>

\* delete_token: GET of the uid key.
DeleteTokenGet(c) ==
    /\ auth[c].pc = "del_get"
    /\ auth' = [auth EXCEPT ![c].old = authUid,
                            ![c].pc = IF authUid = None THEN "del_uid" ELSE "del_access"]
    /\ UNCHANGED <<authOthers, authUid, authTokens, authRefresh, authSerial, authOps, authExchanged>>

\* delete_token: DEL of the old access token's key.
DeleteTokenAccess(c) ==
    /\ auth[c].pc = "del_access"
    /\ authTokens' = authTokens \ {auth[c].old[1].access_token}
    /\ auth' = [auth EXCEPT ![c].pc = "del_refresh"]
    /\ UNCHANGED <<authOthers, authUid, authRefresh, authSerial, authOps, authExchanged>>

\* delete_token: DEL of the old refresh token's key.
DeleteTokenRefresh(c) ==
    /\ auth[c].pc = "del_refresh"
    /\ authRefresh' = authRefresh \ {auth[c].old[1].refresh_token}
    /\ auth' = [auth EXCEPT ![c].pc = "del_uid"]
    /\ UNCHANGED <<authOthers, authUid, authTokens, authSerial, authOps, authExchanged>>

\* delete_token: DEL of the uid key; then the two fresh tokens.
DeleteTokenUid(c) ==
    /\ auth[c].pc = "del_uid"
    /\ authSerial < MaxPairs
    /\ authUid' = None
    /\ authSerial' = authSerial + 1
    /\ authExchanged' = Append(authExchanged, 0)
    /\ auth' = [auth EXCEPT ![c].pc = "store_access",
                            ![c].new = Some(AuthTokenResult(authSerial + 1))]
    /\ UNCHANGED <<authOthers, authTokens, authRefresh, authOps>>

\* store_token: SETEX of the access token's key.
StoreTokenAccess(c) ==
    /\ auth[c].pc = "store_access"
    /\ authTokens' = authTokens \cup {auth[c].new[1].access_token}
    /\ auth' = [auth EXCEPT ![c].pc = "store_refresh"]
    /\ UNCHANGED <<authOthers, authUid, authRefresh, authSerial, authOps, authExchanged>>

\* store_token: SETEX of the refresh token's key.
StoreTokenRefresh(c) ==
    /\ auth[c].pc = "store_refresh"
    /\ authRefresh' = authRefresh \cup {auth[c].new[1].refresh_token}
    /\ auth' = [auth EXCEPT ![c].pc = "store_uid"]
    /\ UNCHANGED <<authOthers, authUid, authTokens, authSerial, authOps, authExchanged>>

\* store_token: SET of the uid key; the call returns the new pair.
StoreTokenUid(c) ==
    /\ auth[c].pc = "store_uid"
    /\ authUid' = auth[c].new
    /\ auth' = [auth EXCEPT ![c].pc = "idle", ![c].res = "Ok"]
    /\ authExchanged' = IF auth[c].op = "refresh"
                        THEN [authExchanged EXCEPT ![auth[c].arg[1].access_token[2]] = @ + 1]
                        ELSE authExchanged
    /\ UNCHANGED <<authOthers, authTokens, authRefresh, authSerial, authOps>>

NextAuth ==
    \/ \E c \in Callers : GenerateAuthToken(c)
    \/ \E c \in Callers : RefreshAuth(c)
    \/ \E c \in Callers : RefreshGetModel(c)
    \/ \E c \in Callers : RefreshGetResult(c)
    \/ \E c \in Callers : DeleteTokenGet(c)
    \/ \E c \in Callers : DeleteTokenAccess(c)
    \/ \E c \in Callers : DeleteTokenRefresh(c)
    \/ \E c \in Callers : DeleteTokenUid(c)
    \/ \E c \in Callers : StoreTokenAccess(c)
    \/ \E c \in Callers : StoreTokenRefresh(c)
    \/ \E c \in Callers : StoreTokenUid(c)

SpecAuth == InitAuth /\ [][NextAuth]_vars

AuthQuiet == \A c \in Callers : auth[c].pc = "idle"
Issued == \E c \in Callers : auth[c].res = "Ok"
\* C29: once the calls for a uid have completed, exactly one access token
\* and one refresh token resolve, those of the pair under the uid key, and
\* no earlier token does, also after calls that ran concurrently; and a pair
\* is exchanged by refresh_auth at most once.
C29_OnePairPerUid ==
    /\ (AuthQuiet /\ Issued) =>
          /\ authUid # None
          /\ authTokens = {authUid[1].access_token}
          /\ authRefresh = {authUid[1].refresh_token}
    /\ \A n \in DOMAIN authExchanged : authExchanged[n] <= 1


\* -------------------------------------------------------------------
\* SpecStore: InMemoryTokenStore (a DashMap) under one key, used by
\* concurrent tasks. Each DashMap call is atomic; get_raw makes two.
\* -------------------------------------------------------------------
MaxStoreTime == 2
MaxSets == 2
MaxStoreOps == 4

StoreValues == {"json1", "json2"}
\* ttl_secs: Option<u64>
StoreTtls == {None, Some(1), Some(2)}

\* is_expired(expires_at) at the instant `at`
is_expired(expires_at, at) == expires_at # None /\ at >= expires_at[1]

IdleReader == [pc |-> "idle", res |-> <<>>]
NoStoreOp == [op |-> "none", c |-> 0, res |-> <<>>, before |-> None, at |-> 0]
StoreOp(op, c, res) == [op |-> op, c |-> c, res |-> res, before |-> tsMap, at |-> tsNow]

InitStore ==
    /\ TokenOthersIdle
    /\ tsNow = 0
    /\ tsMap = None
    /\ tsWritten = None
    /\ tsSets = 0
    /\ tsOps = 0
    /\ tsTask = [c \in Callers |-> IdleReader]
    /\ tsLast = NoStoreOp

\* set_raw(key, value, ttl_secs): map.insert
SetRaw(c) ==
    /\ tsTask[c].pc = "idle"
    /\ tsSets < MaxSets /\ tsOps < MaxStoreOps
    /\ tsSets' = tsSets + 1
    /\ tsOps' = tsOps + 1
    /\ \E value \in StoreValues, ttl_secs \in StoreTtls :
        LET entry == [json |-> value,
                      expires_at |-> IF ttl_secs = None THEN None
                                     ELSE Some(tsNow + ttl_secs[1]),
                      nth |-> tsSets + 1]
        IN /\ tsMap' = Some(entry)
           /\ tsWritten' = Some(entry)
    /\ tsLast' = StoreOp("set", c, TRUE)
    /\ UNCHANGED <<tokenOthers, tsNow, tsTask>>

\* delete(key): map.remove(key).is_some()
Delete(c) ==
    /\ tsTask[c].pc = "idle"
    /\ tsOps < MaxStoreOps
    /\ tsOps' = tsOps + 1
    /\ tsMap' = None
    /\ tsWritten' = None
    /\ tsLast' = StoreOp("delete", c, tsMap # None)
    /\ UNCHANGED <<tokenOthers, tsNow, tsSets, tsTask>>

\* get_raw(key): map.get(key) and is_expired; an expired entry is let go of
\* (drop(entry)) and removed in a second call.
GetRaw(c) ==
    /\ tsTask[c].pc = "idle"
    /\ tsOps < MaxStoreOps
    /\ tsOps' = tsOps + 1
    /\ IF tsMap = None
       THEN /\ tsTask' = [tsTask EXCEPT ![c].res = None]
            /\ tsLast' = StoreOp("get", c, None)
       ELSE IF is_expired(tsMap[1].expires_at, tsNow)
       THEN /\ tsTask' = [tsTask EXCEPT ![c].pc = "remove"]
            /\ UNCHANGED tsLast
       ELSE /\ tsTask' = [tsTask EXCEPT ![c].res = Some(tsMap[1].json)]
            /\ tsLast' = StoreOp("get", c, Some(tsMap[1].json))
    /\ UNCHANGED <<tokenOthers, tsNow, tsMap, tsWritten, tsSets>>

\* get_raw(key), second call: self.map.remove(key); Ok(None)
GetRawRemove(c) ==
    /\ tsTask[c].pc = "remove"
    /\ tsMap' = None
    /\ tsTask' = [tsTask EXCEPT ![c].pc = "idle", ![c].res = None]
    /\ tsLast' = StoreOp("get_remove", c, None)
    /\ UNCHANGED <<tokenOthers, tsNow, tsWritten, tsSets, tsOps>>

\* A second of Instant::now() passes.
StoreTick ==
    /\ tsNow < MaxStoreTime
    /\ tsNow' = tsNow + 1
    /\ UNCHANGED <<tokenOthers, tsMap, tsWritten, tsSets, tsOps, tsTask, tsLast>>

NextStore ==
    \/ \E c \in Callers : SetRaw(c)
    \/ \E c \in Callers : Delete(c)
    \/ \E c \in Callers : GetRaw(c)
    \/ \E c \in Callers : GetRawRemove(c)
    \/ StoreTick

SpecStore == InitStore /\ [][NextStore]_vars

LiveEntry(e, at) == e # None /\ ~is_expired(e[1].expires_at, at)
\* C30: get_raw returns None for an absent or expired key and the value
\* otherwise; it removes an entry only if that entry is expired; so the
\* value of the latest completed set_raw stays in the store until its TTL
\* is over or delete is called, whatever get_raw calls run beside it.
C30_GetRawRemovesOnlyExpired ==
    /\ tsLast.op = "get" =>
          tsLast.res = (IF LiveEntry(tsLast.before, tsLast.at)
                        THEN Some(tsLast.before[1].json) ELSE None)
    /\ tsLast.op = "get_remove" => ~LiveEntry(tsLast.before, tsLast.at)
    /\ LiveEntry(tsWritten, tsNow) => tsMap = tsWritten

====
